---- MODULE Spec2Model ----
(***************************************************************************)
(* Pocket Soul: the per-connection conversation pipeline of the integrated *)
(* server (integrated_app/server.js) and the custom character cache        *)
(* (CustomCharacterGenerator).                                             *)
(*                                                                         *)
(* Texts are sequences of lower-case words; a phrase (trigger, reset       *)
(* command, emotion keyword) occurs in a text when its words occur there   *)
(* contiguously.  An optional value (null in the source) is a sequence of  *)
(* length 0 or 1.  An async handler is one action per stretch of code      *)
(* between two awaits.                                                     *)
(***************************************************************************)
EXTENDS Integers, Sequences, FiniteSets, TLC

\* ------------------------------------------------------------------ bounds
MaxRuns == 2
MaxCalls == 3

\* The number of standard videos in a library.
MaxVideos == 3

\* The number of words of a user input given to a helper function.
MaxWords == 2

\* The number of characters of a description given character by character.
MaxChars == 3

\* The longest conversation history handed to the text model.
MaxTurns == 11

Sockets == {"a", "b"}
RunIds == 1..MaxRuns
ApiIds == (MaxRuns + 1)..(MaxRuns + MaxCalls)
CallIds == 1..(MaxRuns + MaxCalls)

\* ------------------------------------------------------- words and phrases
Null == <<>>
Some(x) == <<x>>

\* Number of positions at which phrase p occurs in text t (String.match /g,
\* String.includes when the count is positive).
Occurrences(p, t) ==
  Cardinality({i \in 1..(Len(t) - Len(p) + 1) :
                 \A j \in 1..Len(p) : t[i + j - 1] = p[j]})

Includes(t, p) == Occurrences(p, t) > 0

\* First position of phrase p in text t (0 when absent).
IndexOf(t, p) ==
  IF Includes(t, p)
    THEN CHOOSE i \in 1..(Len(t) - Len(p) + 1) :
           /\ \A j \in 1..Len(p) : t[i + j - 1] = p[j]
           /\ \A h \in 1..(i - 1) : \E j \in 1..Len(p) : t[h + j - 1] # p[j]
    ELSE 0

\* text.split(p)[1]: the words between the first and the second occurrence
\* of p (to the end when there is no second occurrence).
SplitSecond(t, p) ==
  LET i == IndexOf(t, p)
      rest == SubSeq(t, i + Len(p), Len(t))
      n == IndexOf(rest, p)
  IN IF n = 0 THEN rest ELSE SubSeq(rest, 1, n - 1)

Min(a, b) == IF a < b THEN a ELSE b

Max(a, b) == IF a > b THEN a ELSE b

\* String.trim on a text whose blank stretches at either end are words " ".
trim(text) ==
  LET words == {i \in 1..Len(text) : text[i] # " "}
  IN IF words = {} THEN <<>>
     ELSE SubSeq(text,
                 CHOOSE i \in words : \A j \in words : i <= j,
                 CHOOSE i \in words : \A j \in words : j <= i)

\* String.toLowerCase on the words and characters of the model that have
\* a capital.
toLowerCase(word) ==
  IF word = "Joy" THEN "joy"
  ELSE IF word = "Happy" THEN "happy"
  ELSE IF word = "A" THEN "a"
  ELSE IF word = "J" THEN "j"
  ELSE word

\* The emotion keywords that occur inside a longer word of the model.
keywordsInside(word) ==
  IF word = "joyful" THEN {"joy"}
  ELSE IF word = "stressed" THEN {"stress"}
  ELSE {}

\* Matches of new RegExp(pattern, 'g') in a text: a one-word pattern matches
\* in every word that is or contains it, a pattern of several words where
\* its words follow one another.
Matches(pattern, text) ==
  IF Len(pattern) = 1
    THEN Cardinality({i \in 1..Len(text) :
                        \/ text[i] = pattern[1]
                        \/ pattern[1] \in keywordsInside(text[i])})
    ELSE Occurrences(pattern, text)

customTriggers ==
  << <<"be", "a">>, <<"become", "a">>, <<"turn", "into">>,
     <<"transform", "into">>, <<"can", "you", "be">>,
     <<"could", "you", "be">>, <<"please", "be">>, <<"show", "me", "a">>,
     <<"let", "me", "see", "a">>, <<"i", "want", "a">>,
     <<"be", "like", "a">>, <<"act", "like", "a">> >>

stopWords ==
  {"and", "tell", "show", "me", "the", "a", "an", "that", "can", "will",
   "would", "should", "please", "now", "today", "tomorrow", "about", "what",
   "how", "why", "when", "where"}

\* Words of length 1 (word.length > 1 fails for them).
OneLetterWords == {"a", "i"}

\* The loop over the first min(4, n) words, from index i with the character
\* words cw collected so far.
RECURSIVE characterWords(_, _, _)
characterWords(words, i, cw) ==
  IF i > Min(4, Len(words)) THEN cw
  ELSE IF words[i] \notin stopWords /\ words[i] \notin OneLetterWords
    THEN LET cw2 == Append(cw, words[i])
         IN IF \/ Len(cw2) >= 2
               \/ (Len(cw2) >= 1 /\ i < Len(words) /\ words[i + 1] \in stopWords)
              THEN cw2
              ELSE characterWords(words, i + 1, cw2)
    ELSE characterWords(words, i + 1, cw)

\* detectCustomCharacterRequest: Null, or Some(description).
detectCustomCharacterRequest(userInput) ==
  IF \A n \in 1..Len(customTriggers) : ~Includes(userInput, customTriggers[n])
    THEN Null
    ELSE LET n == CHOOSE m \in 1..Len(customTriggers) :
                    /\ Includes(userInput, customTriggers[m])
                    /\ \A h \in 1..(m - 1) : ~Includes(userInput, customTriggers[h])
             words == SplitSecond(userInput, customTriggers[n])
             cw == characterWords(words, 1, <<>>)
         IN Some(IF Len(cw) > 0 THEN cw
                 ELSE IF Len(words) > 0 THEN <<words[1]>>
                 ELSE <<"character">>)

resetCommands ==
  { <<"go", "back", "to", "normal">>, <<"be", "normal">>,
    <<"reset", "character">>, <<"default", "character">>,
    <<"stop", "being">>, <<"go", "back", "to", "default">> }

isResetCommand(text) == \E cmd \in resetCommands : Includes(text, cmd)

\* The emotion categories in declaration order and their keyword lists.
emotionOrder ==
  <<"anger", "sadness", "happiness", "fear", "surprise", "disgust",
    "excitement", "calm", "anxiety", "joy">>

emotionPatterns ==
  [anger |-> << <<"angry">>, <<"mad">>, <<"furious">>, <<"rage">>,
                <<"pissed">>, <<"irritated">>, <<"annoyed">>,
                <<"frustrated">>, <<"upset">>, <<"hate">>, <<"disgusting">>,
                <<"terrible">>, <<"awful">>, <<"stupid">>, <<"damn">>,
                <<"shit">>, <<"fuck">> >>,
   sadness |-> << <<"sad">>, <<"crying">>, <<"depressed">>, <<"miserable">>,
                  <<"heartbroken">>, <<"grief">>, <<"sorrow">>,
                  <<"melancholy">>, <<"blue">>, <<"down">>,
                  <<"disappointed">>, <<"sorry">>, <<"unfortunately">>,
                  <<"tragic">>, <<"loss">> >>,
   happiness |-> << <<"happy">>, <<"joy">>, <<"joyful">>, <<"cheerful">>,
                    <<"delighted">>, <<"pleased">>, <<"glad">>, <<"content">>,
                    <<"satisfied">>, <<"great">>, <<"wonderful">>,
                    <<"amazing">>, <<"fantastic">>, <<"awesome">>,
                    <<"excellent">>, <<"perfect">>, <<"love">>, <<"smile">>,
                    <<"laugh">> >>,
   fear |-> << <<"afraid">>, <<"scared">>, <<"terrified">>, <<"frightened">>,
               <<"nervous">>, <<"worried">>, <<"anxious">>, <<"panic">>,
               <<"dread">>, <<"horror">>, <<"concern">>, <<"stress">> >>,
   surprise |-> << <<"wow">>, <<"omg">>, <<"whoa">>, <<"incredible">>,
                   <<"unbelievable">>, <<"shocking">>, <<"amazing">>,
                   <<"astonishing">>, <<"unexpected">>, <<"sudden">>,
                   <<"surprise">> >>,
   disgust |-> << <<"disgusting">>, <<"gross">>, <<"yuck">>, <<"eww">>,
                  <<"revolting">>, <<"repulsive">>, <<"nasty">>, <<"sick">>,
                  <<"vomit">> >>,
   excitement |-> << <<"excited">>, <<"thrilled">>, <<"enthusiastic">>,
                     <<"pumped">>, <<"energetic">>, <<"hyped">>, <<"eager">>,
                     <<"fired", "up">>, <<"ready">>, <<"let's", "go">> >>,
   calm |-> << <<"calm">>, <<"peaceful">>, <<"relaxed">>, <<"serene">>,
               <<"tranquil">>, <<"quiet">>, <<"still">>, <<"zen">>,
               <<"meditation">>, <<"breathe">> >>,
   anxiety |-> << <<"anxious">>, <<"stressed">>, <<"nervous">>, <<"worried">>,
                  <<"tense">>, <<"overwhelmed">>, <<"panic">>,
                  <<"restless">> >>,
   joy |-> << <<"joy">>, <<"bliss">>, <<"elated">>, <<"euphoric">>,
              <<"ecstatic">>, <<"overjoyed">>, <<"celebration">>,
              <<"party">>, <<"fun">> >>]

RECURSIVE SumOccurrences(_, _, _)
SumOccurrences(patterns, i, text) ==
  IF i > Len(patterns) THEN 0
  ELSE Matches(patterns[i], text) + SumOccurrences(patterns, i + 1, text)

emotionScore(emotion, text) == SumOccurrences(emotionPatterns[emotion], 1, text)

\* The scan for the highest score: a later category replaces the current one
\* only with a strictly greater score.
RECURSIVE maxEmotionFrom(_, _, _, _)
maxEmotionFrom(i, text, maxEmotion, maxScore) ==
  IF i > Len(emotionOrder) THEN maxEmotion
  ELSE IF emotionScore(emotionOrder[i], text) > maxScore
    THEN maxEmotionFrom(i + 1, text, emotionOrder[i],
                        emotionScore(emotionOrder[i], text))
    ELSE maxEmotionFrom(i + 1, text, maxEmotion, maxScore)

\* `${userInput} ${aiResponse}`.toLowerCase()
combinedText(userInput, aiResponse) ==
  [i \in 1..(Len(userInput) + Len(aiResponse)) |->
     toLowerCase((userInput \o aiResponse)[i])]

RECURSIVE maxEmotionFromLastWins(_, _, _, _)
maxEmotionFromLastWins(i, text, maxEmotion, maxScore) ==
  IF i > Len(emotionOrder) THEN maxEmotion
  ELSE IF emotionScore(emotionOrder[i], text) >= maxScore
          /\ emotionScore(emotionOrder[i], text) > 0
    THEN maxEmotionFromLastWins(i + 1, text, emotionOrder[i],
                                emotionScore(emotionOrder[i], text))
    ELSE maxEmotionFromLastWins(i + 1, text, maxEmotion, maxScore)

detectEmotionFromTextLastWins(userInput, aiResponse) ==
  maxEmotionFromLastWins(1, combinedText(userInput, aiResponse), "neutral", 0)

detectEmotionFromText(userInput, aiResponse) ==
  maxEmotionFrom(1, combinedText(userInput, aiResponse), "neutral", 0)

\* ------------------------------------------------------------------ state
VARIABLES
  \* integrated_app/server.js
  sessions,                \* keys of the sessions Map
  connections,             \* keys of the connections Map
  closed,                  \* socket ids that have disconnected (never reused)
  isProcessing,            \* session.isProcessing of each socket's session object
  conversationHistory,     \* session.conversationHistory
  isHologram,              \* connection.isHologram
  activeCustomCharacters,  \* the activeCustomCharacters Map
  runs,                    \* invocations of the two input handlers
  status,                  \* last 'status' event emitted on each socket
  emitted,                 \* the other events emitted, by run
  interrupted,             \* runs that were in flight when interrupt was handled
  rejections,              \* submissions returned at the guard: parity of their
                           \* number, and whether the last one found the flag set
  availableVideos,         \* VideoEmotionMapper.availableVideos (most recent first)
  resolved,                \* the last getVideoForEmotion call and its result
  evaluated,               \* the last call of a helper function and its result
  legacy,                  \* the legacy server: its connections Map, its one
                           \* AudioConversation and what its sockets received
  \* CustomCharacterGenerator
  manifest,                \* this.manifest
  diskManifest,            \* contents of manifest.json
  files,                   \* video files in cacheDir
  clock,                   \* source of the timestamps in file names
  calls,                   \* invocations of getOrCreateVariant
  removals                 \* keys whose manifest entry was deleted, in order

serverVars ==
  <<sessions, connections, closed, isProcessing, conversationHistory,
    isHologram, activeCustomCharacters, runs, status, emitted,
    interrupted, rejections, availableVideos, resolved, evaluated, legacy>>

cacheVars == <<manifest, diskManifest, files, clock, calls, removals>>

vars == <<serverVars, cacheVars>>

\* ------------------------------------------------ CustomCharacterGenerator
\* `${emotion}_${customDescription}` lower-cased with every character outside
\* [a-z0-9] replaced by '_': the words of both arguments in one sequence.
\* The md5 suffix is a function of this normalized string.
generateCacheKey(emotion, customDescription) == <<emotion>> \o customDescription

\* The same function on strings given character by character.
\* replace(/[^a-z0-9]/g, '_') on one (lower-cased) character of the model:
LowerAlphanumerics == {"a", "j"}

replaceNonAlphanumeric(char) == IF char \in LowerAlphanumerics THEN char ELSE "_"

normalized(emotion, customDescription) ==
  [i \in 1..(Len(emotion) + 1 + Len(customDescription)) |->
     replaceNonAlphanumeric(
       toLowerCase((emotion \o <<"_">> \o customDescription)[i]))]

\* normalized.substring(0, 30)
PrefixLength == 30

\* The key: the prefix of the normalized string and its md5 digest, which is
\* taken to differ for different normalized strings.
generateCacheKeyOfString(emotion, customDescription) ==
  [prefix |-> SubSeq(normalized(emotion, customDescription), 1,
                     Min(PrefixLength, Len(normalized(emotion, customDescription)))),
   hash |-> normalized(emotion, customDescription)]

EmptyManifest == [k \in {} |-> Null]

NoResult == [success |-> FALSE, cached |-> FALSE, path |-> Null, thrown |-> FALSE]

IdleCall ==
  [pc |-> "idle", emotion |-> "neutral", description |-> <<>>, key |-> <<>>,
   seen |-> Null, content |-> EmptyManifest, filename |-> Null,
   invoked |-> FALSE, sawEmpty |-> FALSE, epoch |-> 0, after |-> {},
   result |-> NoResult]

\* Number of times the entry of key k has been deleted from the manifest.
Epoch(k) == Cardinality({i \in 1..Len(removals) : removals[i] = k})

Without(m, k) == [x \in DOMAIN m \ {k} |-> m[x]]

With(m, k, e) == [x \in DOMAIN m \cup {k} |-> IF x = k THEN e ELSE m[x]]

\* getOrCreateVariant up to the first await: checkCache looks the key up; on
\* a miss generateVariant starts at once.
StartCall(c, emotion, customDescription) ==
  LET cacheKey == generateCacheKey(emotion, customDescription)
      hit == cacheKey \in DOMAIN manifest
  IN [calls EXCEPT ![c] =
        [IdleCall EXCEPT
           !.pc = IF hit THEN "access" ELSE "image",
           !.emotion = emotion,
           !.description = customDescription,
           !.key = cacheKey,
           !.seen = IF hit THEN Some(manifest[cacheKey].filename) ELSE Null,
           !.sawEmpty = ~hit,
           !.epoch = Epoch(cacheKey),
           !.after = {d \in CallIds : calls[d].pc = "returned"
                                        /\ calls[d].result.success}]]

Failure == [success |-> FALSE, cached |-> FALSE, path |-> Null, thrown |-> FALSE]

Thrown == [success |-> FALSE, cached |-> FALSE, path |-> Null, thrown |-> TRUE]

Return(c, res) == [calls EXCEPT ![c].pc = "returned", ![c].result = res]

\* checkCache that leaves the entry of a missing file in the manifest.
checkCacheAccessKeepingEntry(c) ==
  /\ calls[c].pc = "access"
  /\ LET k == calls[c].key
     IN IF calls[c].seen[1] \in files /\ k \in DOMAIN manifest
          THEN /\ calls' = Return(c, [success |-> TRUE, cached |-> TRUE,
                                      path |-> Some(manifest[k].filename),
                                      thrown |-> FALSE])
               /\ UNCHANGED <<manifest, removals>>
          ELSE /\ calls' = [calls EXCEPT ![c].pc = "evict_save",
                                         ![c].content = manifest]
               /\ UNCHANGED <<manifest, removals>>
  /\ UNCHANGED <<diskManifest, files, clock>>
  /\ UNCHANGED serverVars

\* checkCache after fs.access: a hit when the file is there; otherwise (also
\* when reading the entry throws because it is gone) delete the entry and
\* save the manifest.
checkCacheAccess(c) ==
  /\ calls[c].pc = "access"
  /\ LET k == calls[c].key
     IN IF calls[c].seen[1] \in files /\ k \in DOMAIN manifest
          THEN /\ calls' = Return(c, [success |-> TRUE, cached |-> TRUE,
                                      path |-> Some(manifest[k].filename),
                                      thrown |-> FALSE])
               /\ UNCHANGED <<manifest, removals>>
          ELSE /\ manifest' = Without(manifest, k)
               /\ removals' = IF k \in DOMAIN manifest
                                THEN Append(removals, k) ELSE removals
               /\ calls' = [calls EXCEPT ![c].pc = "evict_save",
                                         ![c].content = Without(manifest, k)]
  /\ UNCHANGED <<diskManifest, files, clock>>
  /\ UNCHANGED serverVars

\* saveManifest of checkCache completes; on success generateVariant starts,
\* on failure checkCache (and getOrCreateVariant) rejects.
checkCacheSaved(c, ok) ==
  /\ calls[c].pc = "evict_save"
  /\ IF ok
       THEN /\ diskManifest' = calls[c].content
            /\ calls' = [calls EXCEPT ![c].pc = "image"]
       ELSE /\ calls' = Return(c, Thrown)
            /\ UNCHANGED diskManifest
  /\ UNCHANGED <<manifest, files, clock, removals>>
  /\ UNCHANGED serverVars

\* generateVariant: the character image is produced and read; then fal.run
\* is called.
generateVariantImage(c, ok) ==
  /\ calls[c].pc = "image"
  /\ calls' = IF ok THEN [calls EXCEPT ![c].pc = "fal", ![c].invoked = TRUE]
              ELSE Return(c, Failure)
  /\ UNCHANGED <<manifest, diskManifest, files, clock, removals>>
  /\ UNCHANGED serverVars

FalOutcomes == {"url", "nourl", "error", "timeout"}

\* Promise.race([apiCall, timeout]) settles; with a video URL the file name
\* is built from the key and the current time and curl is started.
generateVariantFal(c, outcome) ==
  /\ calls[c].pc = "fal"
  /\ IF outcome = "url"
       THEN /\ calls' = [calls EXCEPT
                           ![c].pc = "curl",
                           ![c].filename = Some([key |-> calls[c].key, ts |-> clock])]
            /\ clock' = clock + 1
       ELSE /\ calls' = Return(c, Failure)
            /\ UNCHANGED clock
  /\ UNCHANGED <<manifest, diskManifest, files, removals>>
  /\ UNCHANGED serverVars

\* curl finishes; the manifest entry is set and saveManifest is called.
generateVariantDownloaded(c, ok) ==
  /\ calls[c].pc = "curl"
  /\ IF ok
       THEN LET entry == [emotion |-> calls[c].emotion,
                          customDescription |-> calls[c].description,
                          filename |-> calls[c].filename[1]]
                m == With(manifest, calls[c].key, entry)
            IN /\ files' = files \cup {calls[c].filename[1]}
               /\ manifest' = m
               /\ calls' = [calls EXCEPT ![c].pc = "save", ![c].content = m]
       ELSE /\ calls' = Return(c, Failure)
            /\ UNCHANGED <<manifest, files>>
  /\ UNCHANGED <<diskManifest, clock, removals>>
  /\ UNCHANGED serverVars

\* saveManifest of generateVariant completes.
generateVariantSaved(c, ok) ==
  /\ calls[c].pc = "save"
  /\ IF ok
       THEN /\ diskManifest' = calls[c].content
            /\ calls' = Return(c, [success |-> TRUE, cached |-> FALSE,
                                   path |-> calls[c].filename, thrown |-> FALSE])
       ELSE /\ calls' = Return(c, Failure)
            /\ UNCHANGED diskManifest
  /\ UNCHANGED <<manifest, files, clock, removals>>
  /\ UNCHANGED serverVars

\* A video file disappears from the backing store.
RemoveFile(f) ==
  /\ f \in files
  /\ files' = files \ {f}
  /\ UNCHANGED <<manifest, diskManifest, clock, calls, removals>>
  /\ UNCHANGED serverVars

\* The steps of a call of getOrCreateVariant after its start.
CallStep(c) ==
  \/ checkCacheAccess(c)
  \/ \E ok \in BOOLEAN : checkCacheSaved(c, ok)
  \/ \E ok \in BOOLEAN : generateVariantImage(c, ok)
  \/ \E outcome \in FalOutcomes : generateVariantFal(c, outcome)
  \/ \E ok \in BOOLEAN : generateVariantDownloaded(c, ok)
  \/ \E ok \in BOOLEAN : generateVariantSaved(c, ok)

\* The generator that animates the reference image: it reads the image and
\* awaits fal.run with no timer beside it.
generateVariantReference(c, ok) ==
  /\ calls[c].pc = "image"
  /\ calls' = IF ok THEN [calls EXCEPT ![c].pc = "fal_reference",
                                       ![c].invoked = TRUE]
              ELSE Return(c, Failure)
  /\ UNCHANGED <<manifest, diskManifest, files, clock, removals>>
  /\ UNCHANGED serverVars

FalResponses == {"url", "nourl", "error"}

\* fal.run settles: the collaborator has answered.
generateVariantFalReference(c, outcome) ==
  /\ calls[c].pc = "fal_reference"
  /\ IF outcome = "url"
       THEN /\ calls' = [calls EXCEPT
                           ![c].pc = "curl",
                           ![c].filename = Some([key |-> calls[c].key, ts |-> clock])]
            /\ clock' = clock + 1
       ELSE /\ calls' = Return(c, Failure)
            /\ UNCHANGED clock
  /\ UNCHANGED <<manifest, diskManifest, files, removals>>
  /\ UNCHANGED serverVars

\* The steps of a call of this generator's getOrCreateVariant.
CallStepReference(c) ==
  \/ checkCacheAccess(c)
  \/ \E ok \in BOOLEAN : checkCacheSaved(c, ok)
  \/ \E ok \in BOOLEAN : generateVariantReference(c, ok)
  \/ \E outcome \in FalResponses : generateVariantFalReference(c, outcome)
  \/ \E ok \in BOOLEAN : generateVariantDownloaded(c, ok)
  \/ \E ok \in BOOLEAN : generateVariantSaved(c, ok)

\* The steps of such a call that do not wait for the video collaborator.
LocalStepReference(c) ==
  \/ checkCacheAccess(c)
  \/ \E ok \in BOOLEAN : checkCacheSaved(c, ok)
  \/ \E ok \in BOOLEAN : generateVariantReference(c, ok)
  \/ \E ok \in BOOLEAN : generateVariantDownloaded(c, ok)
  \/ \E ok \in BOOLEAN : generateVariantSaved(c, ok)

\* ------------------------------------------------------ VideoEmotionMapper
\* emotionVideoMap.get(emotion): the videos of that emotion, in scan order.
emotionVideoMap(emotion) ==
  SelectSeq(availableVideos, LAMBDA v : v.emotion = emotion)

fallbackMap ==
  [anger |-> <<"disgust", "fear", "neutral">>,
   anxiety |-> <<"fear", "sadness", "neutral">>,
   calm |-> <<"neutral", "happiness", "joy">>,
   disgust |-> <<"anger", "fear", "neutral">>,
   excitement |-> <<"happiness", "joy", "surprise">>,
   fear |-> <<"anxiety", "sadness", "neutral">>,
   happiness |-> <<"joy", "excitement", "neutral">>,
   joy |-> <<"happiness", "excitement", "surprise">>,
   love |-> <<"happiness", "joy", "neutral">>,
   neutral |-> <<"calm", "happiness">>,
   sadness |-> <<"fear", "anxiety", "neutral">>,
   surprise |-> <<"excitement", "happiness", "neutral">>]

RECURSIVE firstFallback(_, _)
firstFallback(fallbacks, i) ==
  IF i > Len(fallbacks) THEN SubSeq(availableVideos, 1, Min(1, Len(availableVideos)))
  ELSE IF Len(emotionVideoMap(fallbacks[i])) > 0 THEN emotionVideoMap(fallbacks[i])
  ELSE firstFallback(fallbacks, i + 1)

getFallbackVideosOfNeutral(emotion) == firstFallback(<<"neutral">>, 1)

getFallbackVideos(emotion) ==
  firstFallback(IF emotion \in DOMAIN fallbackMap
                  THEN fallbackMap[emotion] ELSE <<"neutral">>, 1)

getVideoForEmotionWithoutFallback(emotion) ==
  LET direct == emotionVideoMap(toLowerCase(emotion))
  IN IF Len(direct) = 0 THEN Null ELSE Some(direct[1])

\* getVideoForEmotion with preferRecent: Null, or Some(video).
getVideoForEmotion(emotion) ==
  LET direct == emotionVideoMap(toLowerCase(emotion))
      videos == IF Len(direct) = 0
                  THEN getFallbackVideos(toLowerCase(emotion)) ELSE direct
  IN IF Len(videos) = 0 THEN Null ELSE Some(videos[1])

\* A caller asks for the video of an emotion.
ResolveVideo(emotion) ==
  /\ resolved' = Some([emotion |-> emotion, video |-> getVideoForEmotion(emotion)])
  /\ UNCHANGED <<sessions, connections, closed, isProcessing,
                 conversationHistory, isHologram, activeCustomCharacters,
                 runs, status, emitted, interrupted, rejections,
                 availableVideos, evaluated, legacy>>
  /\ UNCHANGED cacheVars

\* The emotions that file names are tagged with.
emotions ==
  {"anger", "anxiety", "calm", "disgust", "excitement", "fear", "happiness",
   "joy", "love", "neutral", "sadness", "surprise"}

\* The result of scanGeneratedVideos for a directory whose files carry the
\* given emotions: one video per file, most recent first.
scanGeneratedVideos(tags) ==
  [i \in 1..Len(tags) |->
     [filename |-> [key |-> <<tags[i]>>, ts |-> Len(tags) - i + 1],
      emotion |-> tags[i], timestamp |-> Len(tags) - i + 1]]

Libraries ==
  {scanGeneratedVideos(tags) :
     tags \in UNION {[1..n -> emotions] : n \in 0..MaxVideos}}

\* Array.sort with the comparator (a, b) => b.timestamp - a.timestamp, or
\* with its opposite: a stable sort, one video inserted after the other.
insertVideo(sorted, video, recentFirst) ==
  LET before == {i \in 1..Len(sorted) :
                   IF recentFirst THEN sorted[i].timestamp >= video.timestamp
                   ELSE sorted[i].timestamp <= video.timestamp}
  IN SubSeq(sorted, 1, Cardinality(before)) \o <<video>>
       \o SubSeq(sorted, Cardinality(before) + 1, Len(sorted))

RECURSIVE sortVideos(_, _)
sortVideos(videos, recentFirst) ==
  IF videos = <<>> THEN <<>>
  ELSE insertVideo(sortVideos(SubSeq(videos, 1, Len(videos) - 1), recentFirst),
                   videos[Len(videos)], recentFirst)

sortOldestFirst(videos) == sortVideos(videos, FALSE)

sortMostRecentFirst(videos) == sortVideos(videos, TRUE)

\* scanGeneratedVideos on a directory listing: one video per file with its
\* emotion and its timestamp (0 for a name without one), most recent first.
scanDirectory(listing) ==
  sortMostRecentFirst([i \in 1..Len(listing) |->
                         [filename |-> [key |-> listing[i].name, ts |-> listing[i].ts],
                          emotion |-> listing[i].name[1],
                          timestamp |-> listing[i].ts]])

\* The files a directory may hold: two emotions, with and without timestamp,
\* and two files of one emotion with the same timestamp.
DirectoryFiles ==
  {[name |-> <<emotion>>, ts |-> ts] : emotion \in {"joy", "neutral"}, ts \in 0..2}
  \cup {[name |-> <<"joy", "copy">>, ts |-> 2]}

\* The listings of readdir: the files of a directory in any order.
Listings ==
  {listing \in UNION {[1..n -> DirectoryFiles] : n \in 0..MaxVideos} :
     \A i, j \in 1..Len(listing) : i # j => listing[i] # listing[j]}

\* refresh: the directory is scanned again and the emotion map rebuilt.
refresh(listing) ==
  /\ availableVideos' = scanDirectory(listing)
  /\ resolved' = Null
  /\ UNCHANGED <<sessions, connections, closed, isProcessing,
                 conversationHistory, isHologram, activeCustomCharacters,
                 runs, status, emitted, interrupted, rejections,
                 evaluated, legacy>>
  /\ UNCHANGED cacheVars

\* The emotions asked for: the tags, one of them capitalised, an unknown one.
ResolveInputs == emotions \cup {"Joy", "curious"}

\* ------------------------------------------- the cache called on its own
Requests ==
  { <<"neutral", <<"pirate">> >>, <<"joy", <<"cowboy">> >> }

getOrCreateVariant(c, emotion, customDescription) ==
  /\ calls[c].pc = "idle"
  /\ calls' = StartCall(c, emotion, customDescription)
  /\ UNCHANGED <<manifest, diskManifest, files, clock, removals>>
  /\ UNCHANGED serverVars

FreeRun ==
  [pc |-> "free", sock |-> "none", path |-> "none", text |-> <<>>,
   response |-> <<>>, providerFailed |-> FALSE, outcome |-> "none",
   activeBefore |-> Null,
   detectedEmotion |-> "neutral", video |-> Null, customVideo |-> Null]

InitSessions ==
  /\ sessions = {}
  /\ connections = {}
  /\ closed = {}
  /\ isProcessing = [s \in Sockets |-> FALSE]
  /\ conversationHistory = [s \in Sockets |-> <<>>]
  /\ isHologram = [s \in Sockets |-> FALSE]
  /\ activeCustomCharacters = EmptyManifest
  /\ runs = [r \in RunIds |-> FreeRun]
  /\ status = [s \in Sockets |-> "none"]
  /\ emitted = {}
  /\ interrupted = {}
  /\ rejections = [parity |-> FALSE, busy |-> FALSE]

InitCache ==
  /\ manifest = EmptyManifest
  /\ diskManifest = EmptyManifest
  /\ files = {}
  /\ clock = 1
  /\ calls = [c \in CallIds |-> IdleCall]
  /\ removals = <<>>

\* ------------------------------------------------ integrated_app/server.js
PlainTexts == { <<"hello">> }

CharacterTexts ==
  { <<"be", "a", "pirate">>, <<"go", "back", "to", "normal">>,
    <<"please", "be", "normal">> }

\* Every text a client or the transcription can deliver in the model.
Transcripts == {<<>>} \cup PlainTexts \cup CharacterTexts

fallbacks ==
  { <<"oh", "something", "went", "fuzzy", "in", "my", "circuits", "could",
      "you", "say", "that", "again">>,
    <<"oops", "my", "holographic", "brain", "had", "a", "little", "glitch",
      "there", "let's", "try", "again">>,
    <<"sorry", "i", "got", "a", "bit", "confused", "what", "were", "we",
      "talking", "about">> }

ModelReplies == { <<"sure">> }

ClientTypes == {"hologram", "mobile", "control"}

\* The standard videos found by the scan at startup, most recent first.
StandardLibrary ==
  << [filename |-> [key |-> <<"happiness">>, ts |-> 2],
      emotion |-> "happiness", timestamp |-> 2],
     [filename |-> [key |-> <<"neutral">>, ts |-> 1],
      emotion |-> "neutral", timestamp |-> 1] >>

\* A detector that finds a character request in every input.
customCharacterRequestAlways ==
  [t \in Transcripts |-> Some(<<"pirate">>)]

\* The two detectors evaluated once for every input of the model.
customCharacterRequestOf ==
  [t \in Transcripts |-> detectCustomCharacterRequest(t)]

detectedEmotionOf ==
  [t \in Transcripts, a \in ModelReplies \cup fallbacks |->
     detectEmotionFromText(t, a)]

resetCommandIn == [t \in Transcripts |-> isResetCommand(t)]

\* A submission handler returns at its guard.
Rejected(s) ==
  [parity |-> ~rejections.parity, busy |-> s \in sessions /\ isProcessing[s]]

HasFreeRun == \E r \in RunIds : runs[r].pc = "free"

FreeRunId ==
  CHOOSE r \in RunIds :
    runs[r].pc = "free" /\ \A q \in 1..(r - 1) : runs[q].pc # "free"

InFlight(r) == runs[r].pc \notin {"free", "done"}

Turn(role, content, r) == [role |-> role, content |-> content, run |-> r]

\* socket.emit on the socket of s: nothing arrives once it has disconnected.
StatusTo(st, s, state) == IF s \in closed THEN st ELSE [st EXCEPT ![s] = state]

Event(type, to, r, audio, video, custom, err) ==
  [type |-> type, to |-> to, run |-> r, audio |-> audio, video |-> video,
   customCharacter |-> custom, error |-> err]

EmitTo(s, ev) == IF s \in closed THEN {} ELSE {ev}

\* The video field of a bundle for a standard video.
StandardVideoData(video) ==
  IF video = Null THEN Null
  ELSE Some([url |-> video[1].filename, emotion |-> video[1].emotion,
             description |-> <<>>, cached |-> FALSE, custom |-> FALSE])

Connection(s) ==
  /\ s \notin connections
  /\ s \notin closed
  /\ sessions' = sessions \cup {s}
  /\ connections' = connections \cup {s}
  /\ UNCHANGED <<closed, isProcessing, conversationHistory, isHologram,
                 activeCustomCharacters, runs, status, emitted, interrupted,
                 rejections, availableVideos, resolved, evaluated, legacy>>
  /\ UNCHANGED cacheVars

Identify(s, type) ==
  /\ s \in connections
  /\ isHologram' = [isHologram EXCEPT ![s] = (type = "hologram" \/ type = "mobile")]
  /\ UNCHANGED <<sessions, connections, closed, isProcessing,
                 conversationHistory, activeCustomCharacters, runs, status,
                 emitted, interrupted, rejections, availableVideos,
                 resolved, evaluated, legacy>>
  /\ UNCHANGED cacheVars

\* socket.on('audio-for-transcription') up to the await of transcribeAudio.
AudioForTranscription(s) ==
  /\ s \in connections
  /\ IF s \notin sessions \/ isProcessing[s]
       THEN /\ rejections' = Rejected(s)
            /\ UNCHANGED <<isProcessing, status, runs>>
       ELSE /\ HasFreeRun
            /\ isProcessing' = [isProcessing EXCEPT ![s] = TRUE]
            /\ status' = StatusTo(status, s, "transcribing")
            /\ runs' = [runs EXCEPT ![FreeRunId] =
                          [FreeRun EXCEPT !.pc = "whisper", !.sock = s,
                                          !.path = "audio"]]
            /\ UNCHANGED rejections
  /\ UNCHANGED <<sessions, connections, closed, conversationHistory,
                 isHologram, activeCustomCharacters, emitted,
                 interrupted, availableVideos, resolved, evaluated, legacy>>
  /\ UNCHANGED cacheVars

\* The audio handler testing the transcript without trim().
WhisperReturnUntrimmed(r, transcript) ==
  /\ runs[r].pc = "whisper"
  /\ LET s == runs[r].sock
     IN IF transcript # <<>>
          THEN /\ conversationHistory' =
                    [conversationHistory EXCEPT
                       ![s] = Append(@, Turn("user", transcript, r))]
               /\ status' = StatusTo(status, s, "thinking")
               /\ runs' = [runs EXCEPT ![r].pc = "gemini", ![r].text = transcript]
          ELSE /\ runs' = [runs EXCEPT ![r].pc = "done", ![r].text = transcript,
                                       ![r].outcome = "empty"]
               /\ UNCHANGED <<conversationHistory, status>>
  /\ UNCHANGED <<sessions, connections, closed, isProcessing, isHologram,
                 activeCustomCharacters, emitted, interrupted, rejections,
                 availableVideos, resolved, evaluated, legacy>>
  /\ UNCHANGED cacheVars

\* transcribeAudio returns: the rest of the audio handler up to the await of
\* the text model, or its end for an empty transcript.
WhisperReturn(r, transcript) ==
  /\ runs[r].pc = "whisper"
  /\ LET s == runs[r].sock
     IN IF trim(transcript) # <<>>
          THEN /\ conversationHistory' =
                    [conversationHistory EXCEPT
                       ![s] = Append(@, Turn("user", transcript, r))]
               /\ status' = StatusTo(status, s, "thinking")
               /\ runs' = [runs EXCEPT ![r].pc = "gemini", ![r].text = transcript]
          ELSE /\ runs' = [runs EXCEPT ![r].pc = "done", ![r].text = transcript,
                                       ![r].outcome = "empty"]
               /\ UNCHANGED <<conversationHistory, status>>
  /\ UNCHANGED <<sessions, connections, closed, isProcessing, isHologram,
                 activeCustomCharacters, emitted, interrupted, rejections,
                 availableVideos, resolved, evaluated, legacy>>
  /\ UNCHANGED cacheVars

\* transcribeAudio rejects: the outer catch of the audio handler.
WhisperThrow(r) ==
  /\ runs[r].pc = "whisper"
  /\ LET s == runs[r].sock
     IN /\ isProcessing' = IF s \in sessions
                             THEN [isProcessing EXCEPT ![s] = FALSE]
                             ELSE isProcessing
        /\ emitted' = emitted \cup
             EmitTo(s, Event("error", s, r, FALSE, Null, Null, TRUE))
        /\ status' = StatusTo(status, s, "idle")
  /\ runs' = [runs EXCEPT ![r].pc = "done", ![r].outcome = "failed"]
  /\ UNCHANGED <<sessions, connections, closed, conversationHistory,
                 isHologram, activeCustomCharacters, interrupted,
                 rejections, availableVideos, resolved, evaluated, legacy>>
  /\ UNCHANGED cacheVars

\* The text handler with the isProcessing test left out of its guard.
TextInputIgnoringBusy(s, text) ==
  /\ s \in connections
  /\ IF s \notin sessions \/ text = <<>>
       THEN /\ rejections' = Rejected(s)
            /\ UNCHANGED <<isProcessing, status, runs, conversationHistory>>
       ELSE /\ HasFreeRun
            /\ isProcessing' = [isProcessing EXCEPT ![s] = TRUE]
            /\ status' = StatusTo(status, s, "thinking")
            /\ conversationHistory' =
                 [conversationHistory EXCEPT
                    ![s] = Append(@, Turn("user", text, FreeRunId))]
            /\ runs' = [runs EXCEPT ![FreeRunId] =
                          [FreeRun EXCEPT !.pc = "gemini", !.sock = s,
                                          !.path = "text", !.text = text]]
            /\ UNCHANGED rejections
  /\ UNCHANGED <<sessions, connections, closed, isHologram,
                 activeCustomCharacters, emitted, interrupted,
                 availableVideos, resolved, evaluated, legacy>>
  /\ UNCHANGED cacheVars

\* socket.on('text-input') up to the await of generateResponse.
TextInput(s, text) ==
  /\ s \in connections
  /\ IF s \notin sessions \/ isProcessing[s] \/ text = <<>>
       THEN /\ rejections' = Rejected(s)
            /\ UNCHANGED <<isProcessing, status, runs, conversationHistory>>
       ELSE /\ HasFreeRun
            /\ isProcessing' = [isProcessing EXCEPT ![s] = TRUE]
            /\ status' = StatusTo(status, s, "thinking")
            /\ conversationHistory' =
                 [conversationHistory EXCEPT
                    ![s] = Append(@, Turn("user", text, FreeRunId))]
            /\ runs' = [runs EXCEPT ![FreeRunId] =
                          [FreeRun EXCEPT !.pc = "gemini", !.sock = s,
                                          !.path = "text", !.text = text]]
            /\ UNCHANGED rejections
  /\ UNCHANGED <<sessions, connections, closed, isHologram,
                 activeCustomCharacters, emitted, interrupted,
                 availableVideos, resolved, evaluated, legacy>>
  /\ UNCHANGED cacheVars

\* generateResponse has produced the reply (from the model, or a fallback):
\* the rest of the handler up to the next await.
AfterResponse(r, response, failed) ==
  LET s == runs[r].sock
      text == runs[r].text
      reset == runs[r].path = "text" /\ resetCommandIn[text]
      active == IF reset THEN Without(activeCustomCharacters, s)
                ELSE activeCustomCharacters
      customCharacterRequest == customCharacterRequestOf[text]
      detectedEmotion == detectedEmotionOf[text, response]
      run == [runs[r] EXCEPT
                !.response = response, !.providerFailed = failed,
                !.detectedEmotion = detectedEmotion,
                !.activeBefore = IF s \in DOMAIN activeCustomCharacters
                                   THEN Some(activeCustomCharacters[s])
                                   ELSE Null]
  IN /\ conversationHistory' =
          [conversationHistory EXCEPT
             ![s] = Append(@, Turn("assistant", response, r))]
     /\ activeCustomCharacters' = active
     /\ IF customCharacterRequest # Null
          THEN /\ status' = StatusTo(status, s, "generating-character")
               /\ calls' = StartCall(r, detectedEmotion, customCharacterRequest[1])
               /\ runs' = [runs EXCEPT ![r] = [run EXCEPT !.pc = "character"]]
          ELSE IF s \in DOMAIN active /\ active[s].description # <<>>
            THEN /\ status' = IF runs[r].path = "text"
                                THEN StatusTo(status, s, "generating-character")
                                ELSE status
                 /\ calls' = StartCall(r, detectedEmotion, active[s].description)
                 /\ runs' = [runs EXCEPT ![r] = [run EXCEPT !.pc = "character"]]
            ELSE /\ status' = StatusTo(status, s, "generating-audio")
                 /\ runs' = [runs EXCEPT ![r] =
                               [run EXCEPT !.pc = "tts",
                                           !.video = getVideoForEmotion(detectedEmotion)]]
                 /\ UNCHANGED calls
     /\ UNCHANGED <<sessions, connections, closed, isProcessing, isHologram,
                    emitted, interrupted, rejections, availableVideos,
                    resolved, evaluated, legacy>>
     /\ UNCHANGED <<manifest, diskManifest, files, clock, removals>>

GeminiReturn(r, response) ==
  /\ runs[r].pc = "gemini"
  /\ AfterResponse(r, response, FALSE)

\* generateResponse letting the model's exception through: the outer catch of
\* the handler ends the run.
GeminiThrowUncaught(r, fallback) ==
  /\ runs[r].pc = "gemini"
  /\ LET s == runs[r].sock
     IN /\ isProcessing' = IF s \in sessions
                             THEN [isProcessing EXCEPT ![s] = FALSE]
                             ELSE isProcessing
        /\ emitted' = emitted \cup
             EmitTo(s, Event("error", s, r, FALSE, Null, Null, TRUE))
        /\ status' = StatusTo(status, s, "idle")
  /\ runs' = [runs EXCEPT ![r].pc = "done", ![r].outcome = "failed",
                          ![r].providerFailed = TRUE]
  /\ UNCHANGED <<sessions, connections, closed, conversationHistory,
                 isHologram, activeCustomCharacters, interrupted,
                 rejections, availableVideos, resolved, evaluated, legacy>>
  /\ UNCHANGED cacheVars

\* The model call throws inside generateResponse: a random fallback.
GeminiThrow(r, fallback) ==
  /\ runs[r].pc = "gemini"
  /\ AfterResponse(r, fallback, TRUE)

\* The character stage without its try/catch: a rejection of
\* getOrCreateVariant reaches the outer catch of the handler and ends the run.
CharacterReturnUncaught(r) ==
  /\ runs[r].pc = "character"
  /\ calls[r].pc = "returned"
  /\ LET s == runs[r].sock
         customResult == calls[r].result
         customVideo == [url |-> customResult.path[1],
                         emotion |-> runs[r].detectedEmotion,
                         description |-> calls[r].description,
                         cached |-> customResult.cached, custom |-> TRUE]
     IN IF customResult.thrown
          THEN /\ isProcessing' = [isProcessing EXCEPT ![s] = FALSE]
               /\ emitted' = emitted \cup
                    EmitTo(s, Event("error", s, r, FALSE, Null, Null, TRUE))
               /\ status' = StatusTo(status, s, "idle")
               /\ runs' = [runs EXCEPT ![r].pc = "done", ![r].outcome = "failed"]
               /\ UNCHANGED activeCustomCharacters
          ELSE /\ IF customResult.success
                    THEN /\ activeCustomCharacters' =
                              With(activeCustomCharacters, s, customVideo)
                         /\ runs' = [runs EXCEPT ![r].pc = "tts",
                                                 ![r].customVideo = Some(customVideo)]
                    ELSE /\ runs' = [runs EXCEPT
                                       ![r].pc = "tts",
                                       ![r].video = getVideoForEmotion(runs[r].detectedEmotion)]
                         /\ UNCHANGED activeCustomCharacters
               /\ status' = StatusTo(status, s, "generating-audio")
               /\ UNCHANGED <<isProcessing, emitted>>
  /\ UNCHANGED <<sessions, connections, closed, conversationHistory,
                 isHologram, interrupted, rejections, availableVideos,
                 resolved, evaluated, legacy>>
  /\ UNCHANGED cacheVars

\* The character stage storing the custom video only when the session has no
\* active custom character yet.
CharacterReturnKeepingStored(r) ==
  /\ runs[r].pc = "character"
  /\ calls[r].pc = "returned"
  /\ LET s == runs[r].sock
         customResult == calls[r].result
         customVideo == [url |-> customResult.path[1],
                         emotion |-> runs[r].detectedEmotion,
                         description |-> calls[r].description,
                         cached |-> customResult.cached, custom |-> TRUE]
     IN /\ IF ~customResult.thrown /\ customResult.success
             THEN /\ activeCustomCharacters' =
                       IF s \in DOMAIN activeCustomCharacters
                         THEN activeCustomCharacters
                         ELSE With(activeCustomCharacters, s, customVideo)
                  /\ runs' = [runs EXCEPT ![r].pc = "tts",
                                          ![r].customVideo = Some(customVideo)]
             ELSE /\ runs' = [runs EXCEPT
                                ![r].pc = "tts",
                                ![r].video = getVideoForEmotion(runs[r].detectedEmotion)]
                  /\ UNCHANGED activeCustomCharacters
        /\ status' = StatusTo(status, s, "generating-audio")
  /\ UNCHANGED <<sessions, connections, closed, isProcessing,
                 conversationHistory, isHologram, emitted,
                 interrupted, rejections, availableVideos, resolved, evaluated, legacy>>
  /\ UNCHANGED cacheVars

\* getOrCreateVariant settles: custom video on success, standard video
\* otherwise (failure result or rejection).
CharacterReturn(r) ==
  /\ runs[r].pc = "character"
  /\ calls[r].pc = "returned"
  /\ LET s == runs[r].sock
         customResult == calls[r].result
         customVideo == [url |-> customResult.path[1],
                         emotion |-> runs[r].detectedEmotion,
                         description |-> calls[r].description,
                         cached |-> customResult.cached, custom |-> TRUE]
     IN /\ IF ~customResult.thrown /\ customResult.success
             THEN /\ activeCustomCharacters' =
                       With(activeCustomCharacters, s, customVideo)
                  /\ runs' = [runs EXCEPT ![r].pc = "tts",
                                          ![r].customVideo = Some(customVideo)]
             ELSE /\ runs' = [runs EXCEPT
                                ![r].pc = "tts",
                                ![r].video = getVideoForEmotion(runs[r].detectedEmotion)]
                  /\ UNCHANGED activeCustomCharacters
        /\ status' = StatusTo(status, s, "generating-audio")
  /\ UNCHANGED <<sessions, connections, closed, isProcessing,
                 conversationHistory, isHologram, emitted,
                 interrupted, rejections, availableVideos, resolved, evaluated, legacy>>
  /\ UNCHANGED cacheVars

everyConnection == connections

hologramConnections == {c \in connections : isHologram[c]}

\* generateAudioREST settles: the rest of the handler.
TtsReturn(r, ok) ==
  /\ runs[r].pc = "tts"
  /\ LET s == runs[r].sock
         customVideo == runs[r].customVideo
         videoData == IF customVideo # Null THEN customVideo
                      ELSE StandardVideoData(runs[r].video)
         customCharacter ==
           IF customVideo # Null
             THEN Some([description |-> customVideo[1].description,
                        cached |-> customVideo[1].cached])
             ELSE Null
     IN /\ emitted' = emitted \cup
             IF ok
               THEN EmitTo(s, Event("conversation-complete", s, r, TRUE,
                                    videoData, customCharacter, FALSE))
                    \cup {Event("display-content", h, r, TRUE, videoData,
                                customCharacter, FALSE) :
                            h \in hologramConnections}
               ELSE IF runs[r].path = "audio"
                 THEN EmitTo(s, Event("error", s, r, FALSE, Null, Null, TRUE))
                 ELSE EmitTo(s, Event("conversation-complete", s, r, FALSE,
                                      StandardVideoData(runs[r].video), Null,
                                      TRUE))
                      \cup {Event("display-content", h, r, FALSE,
                                  StandardVideoData(runs[r].video), Null,
                                  FALSE) :
                              h \in hologramConnections}
        /\ status' = StatusTo(status, s, "idle")
        /\ isProcessing' = [isProcessing EXCEPT ![s] = FALSE]
  /\ runs' = [runs EXCEPT ![r].pc = "done",
                          ![r].outcome = IF ok THEN "complete" ELSE "voice-failed"]
  /\ UNCHANGED <<sessions, connections, closed, conversationHistory,
                 isHologram, activeCustomCharacters, interrupted,
                 rejections, availableVideos, resolved, evaluated, legacy>>
  /\ UNCHANGED cacheVars

Interrupt(s) ==
  /\ s \in connections
  /\ s \in sessions
  /\ isProcessing' = [isProcessing EXCEPT ![s] = FALSE]
  /\ status' = StatusTo(status, s, "idle")
  /\ interrupted' = interrupted \cup {r \in RunIds : InFlight(r) /\ runs[r].sock = s}
  /\ UNCHANGED <<sessions, connections, closed, conversationHistory,
                 isHologram, activeCustomCharacters, runs,
                 emitted, rejections, availableVideos, resolved, evaluated, legacy>>
  /\ UNCHANGED cacheVars

\* The 'reset-complete' event on the socket of s (it belongs to no run).
ResetComplete(s) == Event("reset-complete", s, 0, FALSE, Null, Null, FALSE)

\* A reset that empties the history of every session.
ResetEverySession(s) ==
  /\ s \in connections
  /\ s \in sessions
  /\ conversationHistory' = [t \in Sockets |-> <<>>]
  /\ isProcessing' = [isProcessing EXCEPT ![s] = FALSE]
  /\ emitted' = emitted \cup EmitTo(s, ResetComplete(s))
  /\ UNCHANGED <<sessions, connections, closed, isHologram,
                 activeCustomCharacters, runs, status, interrupted,
                 rejections, availableVideos, resolved, evaluated, legacy>>
  /\ UNCHANGED cacheVars

Reset(s) ==
  /\ s \in connections
  /\ s \in sessions
  /\ conversationHistory' = [conversationHistory EXCEPT ![s] = <<>>]
  /\ isProcessing' = [isProcessing EXCEPT ![s] = FALSE]
  /\ emitted' = emitted \cup EmitTo(s, ResetComplete(s))
  /\ UNCHANGED <<sessions, connections, closed, isHologram,
                 activeCustomCharacters, runs, status, interrupted,
                 rejections, availableVideos, resolved, evaluated, legacy>>
  /\ UNCHANGED cacheVars

Disconnect(s) ==
  /\ s \in connections
  /\ sessions' = sessions \ {s}
  /\ connections' = connections \ {s}
  /\ closed' = closed \cup {s}
  /\ UNCHANGED <<isProcessing, conversationHistory, isHologram,
                 activeCustomCharacters, runs, status, emitted, interrupted,
                 rejections, availableVideos, resolved, evaluated, legacy>>
  /\ UNCHANGED cacheVars

\* ------------------------------------------------------- the legacy server
\* The legacy server keeps one AudioConversation for all of its clients; its
\* turns are submitted over HTTP and their events are relayed with io.emit.
LegacyEvents ==
  {"audio-status", "audio-transcription", "audio-response", "audio-error",
   "custom-character-ready"}

\* The clients of POST /api/audio/process.
HttpClients == {"x", "y"}

\* The generator instances of the legacy server: the conversation module's
\* (part_000 15), the server's (part_003 40) and the API router's (part_002
\* 11); each has its own this.manifest and all write the same manifest.json.
Generators == {"conversation", "router", "server"}

LegacyIdleCall ==
  [pc |-> "idle", key |-> <<>>, content |-> {}, success |-> FALSE,
   cached |-> FALSE]

\* parseUserRequest: the emotions in the order of its table.
emotionKeywords ==
  << [emotion |-> "joy",
      keywords |-> <<"happy", "joyful", "cheerful", "excited", "elated">>],
     [emotion |-> "anger",
      keywords |-> <<"angry", "mad", "furious", "rage", "upset">>],
     [emotion |-> "fear",
      keywords |-> <<"scared", "afraid", "fearful", "terrified", "nervous">>],
     [emotion |-> "disgust",
      keywords |-> <<"disgusted", "gross", "ew", "yuck", "repulsed">>],
     [emotion |-> "anxiety",
      keywords |-> <<"anxious", "worried", "stressed", "nervous", "tense">>],
     [emotion |-> "sadness",
      keywords |-> <<"sad", "crying", "depressed", "melancholy", "blue">>],
     [emotion |-> "calm",
      keywords |-> <<"calm", "peaceful", "serene", "relaxed", "zen">>] >>

\* parseUserRequest on a prompt given as words (a keyword is found where it
\* is a word of the prompt): the first emotion with a keyword in the prompt,
\* that keyword removed, a leading article removed, 'character' when nothing
\* is left.
parseUserRequest(userPrompt) ==
  LET lower == [i \in 1..Len(userPrompt) |-> toLowerCase(userPrompt[i])]
      found == {e \in 1..Len(emotionKeywords) :
                  \E k \in 1..Len(emotionKeywords[e].keywords) :
                    \E i \in 1..Len(lower) : lower[i] = emotionKeywords[e].keywords[k]}
      e == IF found = {} THEN 0 ELSE CHOOSE x \in found : \A y \in found : x <= y
      keyword ==
        IF e = 0 THEN ""
        ELSE emotionKeywords[e].keywords[
               CHOOSE k \in 1..Len(emotionKeywords[e].keywords) :
                 /\ \E i \in 1..Len(lower) : lower[i] = emotionKeywords[e].keywords[k]
                 /\ \A h \in 1..(k - 1) :
                      \A i \in 1..Len(lower) : lower[i] # emotionKeywords[e].keywords[h]]
      removed == SelectSeq(userPrompt, LAMBDA w : toLowerCase(w) # keyword)
      cleaned == IF removed # <<>> /\ toLowerCase(removed[1]) \in {"a", "an", "the"}
                   THEN Tail(removed) ELSE removed
  IN [emotion |-> IF e = 0 THEN "neutral" ELSE emotionKeywords[e].emotion,
      customDescription |-> IF cleaned = <<>> THEN <<"character">> ELSE cleaned]

\* The verb phrases of the first two patterns of the conversation module's
\* detectCustomCharacterRequest.
legacyVerbs ==
  { <<"be">>, <<"become">>, <<"turn", "into">>, <<"transform", "into">>,
    <<"act", "like">>, <<"dress", "as">> }

legacySwitches ==
  { <<verb, to>> : verb \in {"change", "switch", "transform"}, to \in {"to", "into"} }

\* match[1] of a pattern `phrase (a |an )?(.+)` on a text given as words:
\* the words after the leftmost phrase that has a word after it, without a
\* leading article (Null when the pattern does not match).
restAfter(text, phrases) ==
  LET at(i) == {p \in phrases : /\ i + Len(p) - 1 < Len(text)
                                 /\ SubSeq(text, i, i + Len(p) - 1) = p}
      positions == {i \in 1..Len(text) : at(i) # {}}
  IN IF positions = {} THEN Null
     ELSE LET i == CHOOSE x \in positions : \A y \in positions : x <= y
              p == CHOOSE q \in at(i) : TRUE
              rest == SubSeq(text, i + Len(p), Len(text))
          IN Some(IF Len(rest) > 1 /\ rest[1] \in {"a", "an"}
                    THEN Tail(rest) ELSE rest)

\* match[1] of `(show me|i want to see) (a |an )?(.+) (version|character|
\* avatar)`: the words between the phrase and the last of the three nouns.
restBetween(text) ==
  LET phrases == { <<"show", "me">>, <<"i", "want", "to", "see">> }
      nouns == {"version", "character", "avatar"}
      ends(i) == {j \in 1..Len(text) :
                    /\ text[j] \in nouns
                    /\ \E p \in phrases : /\ i + Len(p) < j
                                          /\ SubSeq(text, i, i + Len(p) - 1) = p}
      positions == {i \in 1..Len(text) : ends(i) # {}}
  IN IF positions = {} THEN Null
     ELSE LET i == CHOOSE x \in positions : \A y \in positions : x <= y
              j == CHOOSE x \in ends(i) : \A y \in ends(i) : y <= x
              p == CHOOSE q \in phrases :
                     i + Len(q) < j /\ SubSeq(text, i, i + Len(q) - 1) = q
              rest == SubSeq(text, i + Len(p), j - 1)
          IN Some(IF Len(rest) > 1 /\ rest[1] \in {"a", "an"}
                    THEN Tail(rest) ELSE rest)

\* AudioConversation.detectCustomCharacterRequest: Null, or Some of the
\* parsed request of the first pattern that matches.
legacyDetectCustomCharacterRequest(text) ==
  LET lower == [i \in 1..Len(text) |-> toLowerCase(text[i])]
      characterDescription ==
        IF restAfter(lower, legacyVerbs) # Null THEN restAfter(lower, legacyVerbs)
        ELSE IF restAfter(lower, legacySwitches) # Null
          THEN restAfter(lower, legacySwitches)
        ELSE restBetween(lower)
  IN IF characterDescription = Null THEN Null
     ELSE Some(parseUserRequest(characterDescription[1]))

\* What the transcription can return to the conversation module.
LegacyTranscripts ==
  {<<>>, <<"hello">>, <<"be", "a", "pirate">>, <<"be", "a", "happy", "cowboy">>}

legacyCustomCharacterRequestOf ==
  [t \in LegacyTranscripts \cup Transcripts |-> legacyDetectCustomCharacterRequest(t)]

\* getOrCreateVariant of instance g up to its first await: checkCache looks
\* the key up in the instance's own manifest; on a miss generateVariant
\* starts.
LegacyStartCall(g, emotion, customDescription) ==
  [LegacyIdleCall EXCEPT
     !.pc = IF generateCacheKey(emotion, customDescription) \in legacy.manifests[g]
              THEN "access" ELSE "generating",
     !.key = generateCacheKey(emotion, customDescription)]

InitLegacy ==
  [connections |-> {},
   isHologram  |-> [s \in Sockets |-> FALSE],
   closed      |-> {},      \* socket ids that have disconnected (never reused)
   identified  |-> {},      \* sockets whose 'identify' message was handled
   isProcessing |-> FALSE,
   conversationHistory |-> <<>>,   \* the roles of its turns
   stage       |-> "idle",  \* where processAudioInput is waiting
   origin      |-> "none",  \* the client whose request is being processed
   responses   |-> [c \in HttpClients |-> "none"],  \* last response to each
   rejection   |-> Null,    \* the last call that returned at the busy test:
                            \* its client and the client of the run in flight
   delivered   |-> {},      \* the events each socket received
   manifests   |-> [g \in Generators |-> {}],  \* this.manifest of each
                            \* generator instance: the keys of its entries
   diskManifest |-> {},     \* the keys of the entries of manifest.json
   calls       |-> [g \in Generators |-> LegacyIdleCall],
   generated   |-> {}]      \* the keys of the generations that succeeded

\* io.emit(event): one delivery to every socket connected at that moment.
ioEmit(event) == {[event |-> event, to |-> s] : s \in legacy.connections}

LegacyConnection(s) ==
  /\ s \notin legacy.connections
  /\ s \notin legacy.closed
  /\ legacy' = [legacy EXCEPT !.connections = @ \cup {s},
                              !.isHologram[s] = FALSE]
  /\ UNCHANGED <<sessions, connections, closed, isProcessing,
                 conversationHistory, isHologram, activeCustomCharacters,
                 runs, status, emitted, interrupted, rejections,
                 availableVideos, resolved, evaluated>>
  /\ UNCHANGED cacheVars

LegacyIdentify(s, type) ==
  /\ s \in legacy.connections
  /\ legacy' = [legacy EXCEPT !.isHologram[s] = (type = "hologram"),
                              !.identified = @ \cup {s}]
  /\ UNCHANGED <<sessions, connections, closed, isProcessing,
                 conversationHistory, isHologram, activeCustomCharacters,
                 runs, status, emitted, interrupted, rejections,
                 availableVideos, resolved, evaluated>>
  /\ UNCHANGED cacheVars

\* POST /api/audio/process with audio of a client: processAudioInput up to
\* the transcription request; a call that finds the conversation busy
\* returns null, which the endpoint answers with 'No speech detected'.
LegacyProcessAudioInput(client) ==
  /\ Len(legacy.conversationHistory) < 2 * MaxRuns
  /\ IF legacy.isProcessing
       THEN legacy' = [legacy EXCEPT
                         !.responses[client] = "No speech detected",
                         !.rejection = Some([client |-> client,
                                             owner |-> legacy.origin])]
       ELSE legacy' = [legacy EXCEPT
                         !.isProcessing = TRUE,
                         !.stage = "transcribing",
                         !.origin = client,
                         !.delivered = @ \cup ioEmit("audio-status")]
  /\ UNCHANGED <<sessions, connections, closed, isProcessing,
                 conversationHistory, isHologram, activeCustomCharacters,
                 runs, status, emitted, interrupted, rejections,
                 availableVideos, resolved, evaluated>>
  /\ UNCHANGED cacheVars

\* The transcription returns: an empty transcript ends the run; with a
\* character request getOrCreateVariant is called first; otherwise the run
\* goes on to the text model.
LegacyWhisperReturn(transcript) ==
  /\ legacy.stage = "transcribing"
  /\ IF trim(transcript) = <<>>
       THEN legacy' = [legacy EXCEPT
                         !.isProcessing = FALSE,
                         !.stage = "idle",
                         !.origin = "none",
                         !.responses[legacy.origin] = "No speech detected",
                         !.delivered = @ \cup ioEmit("audio-status")]
       ELSE IF legacyCustomCharacterRequestOf[transcript] # Null
         THEN legacy' = [legacy EXCEPT
                           !.stage = "generating-character",
                           !.calls["conversation"] =
                              LegacyStartCall(
                                "conversation",
                                legacyCustomCharacterRequestOf[transcript][1].emotion,
                                legacyCustomCharacterRequestOf[transcript][1].customDescription),
                           !.delivered = @ \cup ioEmit("audio-transcription")
                                           \cup ioEmit("audio-status")]
         ELSE legacy' = [legacy EXCEPT
                           !.stage = "thinking",
                           !.conversationHistory = Append(@, "user"),
                           !.delivered = @ \cup ioEmit("audio-transcription")
                                           \cup ioEmit("audio-status")]
  /\ UNCHANGED <<sessions, connections, closed, isProcessing,
                 conversationHistory, isHologram, activeCustomCharacters,
                 runs, status, emitted, interrupted, rejections,
                 availableVideos, resolved, evaluated>>
  /\ UNCHANGED cacheVars

\* The transcription throws: the catch relays 'error' and the error status.
LegacyWhisperThrow ==
  /\ legacy.stage = "transcribing"
  /\ legacy' = [legacy EXCEPT !.isProcessing = FALSE,
                              !.stage = "idle",
                              !.origin = "none",
                              !.responses[legacy.origin] = "error",
                              !.delivered = @ \cup ioEmit("audio-error")
                                              \cup ioEmit("audio-status")]
  /\ UNCHANGED <<sessions, connections, closed, isProcessing,
                 conversationHistory, isHologram, activeCustomCharacters,
                 runs, status, emitted, interrupted, rejections,
                 availableVideos, resolved, evaluated>>
  /\ UNCHANGED cacheVars

\* generateResponse returns (it catches the text model's failures itself).
LegacyGenerateResponseReturn ==
  /\ legacy.stage = "thinking"
  /\ legacy' = [legacy EXCEPT !.stage = "speaking",
                              !.conversationHistory = Append(@, "assistant"),
                              !.delivered = @ \cup ioEmit("audio-status")]
  /\ UNCHANGED <<sessions, connections, closed, isProcessing,
                 conversationHistory, isHologram, activeCustomCharacters,
                 runs, status, emitted, interrupted, rejections,
                 availableVideos, resolved, evaluated>>
  /\ UNCHANGED cacheVars

\* The voice synthesis returns an audio buffer: 'conversation-complete' is
\* relayed as 'audio-response'; or it throws: 'error' and the error status.
LegacyGenerateAudioReturn(ok) ==
  /\ legacy.stage = "speaking"
  /\ legacy' = [legacy EXCEPT !.isProcessing = FALSE,
                              !.stage = "idle",
                              !.origin = "none",
                              !.responses[legacy.origin] =
                                 IF ok THEN "success" ELSE "error",
                              !.delivered =
                                 IF ok
                                   THEN @ \cup ioEmit("audio-response")
                                          \cup ioEmit("audio-status")
                                   ELSE @ \cup ioEmit("audio-error")
                                          \cup ioEmit("audio-status")]
  /\ UNCHANGED <<sessions, connections, closed, isProcessing,
                 conversationHistory, isHologram, activeCustomCharacters,
                 runs, status, emitted, interrupted, rejections,
                 availableVideos, resolved, evaluated>>
  /\ UNCHANGED cacheVars

\* POST /generate of the legacy API router, from the return of its
\* generator's getOrCreateVariant to the response.
LegacyGenerate(success) ==
  /\ legacy' = [legacy EXCEPT !.delivered =
                                 IF success
                                   THEN @ \cup ioEmit("custom-character-ready")
                                   ELSE @]
  /\ UNCHANGED <<sessions, connections, closed, isProcessing,
                 conversationHistory, isHologram, activeCustomCharacters,
                 runs, status, emitted, interrupted, rejections,
                 availableVideos, resolved, evaluated>>
  /\ UNCHANGED cacheVars

LegacyDisconnect(s) ==
  /\ s \in legacy.connections
  /\ legacy' = [legacy EXCEPT !.connections = @ \ {s},
                              !.closed = @ \cup {s}]
  /\ UNCHANGED <<sessions, connections, closed, isProcessing,
                 conversationHistory, isHologram, activeCustomCharacters,
                 runs, status, emitted, interrupted, rejections,
                 availableVideos, resolved, evaluated>>
  /\ UNCHANGED cacheVars

\* getOrCreateVariant has settled in the conversation module (a rejection is
\* caught): the user turn is pushed and the text model is called.
LegacyCharacterReturn ==
  /\ legacy.stage = "generating-character"
  /\ legacy.calls["conversation"].pc = "returned"
  /\ legacy' = [legacy EXCEPT
                  !.stage = "thinking",
                  !.calls["conversation"] = LegacyIdleCall,
                  !.conversationHistory = Append(@, "user"),
                  !.delivered = @ \cup ioEmit("audio-status")]
  /\ UNCHANGED <<sessions, connections, closed, isProcessing,
                 conversationHistory, isHologram, activeCustomCharacters,
                 runs, status, emitted, interrupted, rejections,
                 availableVideos, resolved, evaluated>>
  /\ UNCHANGED cacheVars

\* The API router or the server calls getOrCreateVariant of its instance.
LegacyGetOrCreateVariant(g, emotion, customDescription) ==
  /\ g \in {"router", "server"}
  /\ legacy.calls[g].pc \in {"idle", "returned"}
  /\ legacy' = [legacy EXCEPT
                  !.calls[g] = LegacyStartCall(g, emotion, customDescription)]
  /\ UNCHANGED <<sessions, connections, closed, isProcessing,
                 conversationHistory, isHologram, activeCustomCharacters,
                 runs, status, emitted, interrupted, rejections,
                 availableVideos, resolved, evaluated>>
  /\ UNCHANGED cacheVars

\* checkCache of instance g after fs.access (the files stay in place here).
LegacyCheckCacheAccess(g) ==
  /\ legacy.calls[g].pc = "access"
  /\ legacy' = [legacy EXCEPT !.calls[g].pc = "returned",
                              !.calls[g].success = TRUE,
                              !.calls[g].cached = TRUE]
  /\ UNCHANGED <<sessions, connections, closed, isProcessing,
                 conversationHistory, isHologram, activeCustomCharacters,
                 runs, status, emitted, interrupted, rejections,
                 availableVideos, resolved, evaluated>>
  /\ UNCHANGED cacheVars

\* generateVariant of instance g: image, video and download have succeeded,
\* the entry is set in the instance's manifest and saveManifest is called
\* with it; or one of them has failed.
LegacyGenerateVariantDownloaded(g, ok) ==
  /\ legacy.calls[g].pc = "generating"
  /\ legacy' =
       IF ok
         THEN [legacy EXCEPT
                 !.manifests[g] = @ \cup {legacy.calls[g].key},
                 !.calls[g].pc = "save",
                 !.calls[g].content = legacy.manifests[g] \cup {legacy.calls[g].key}]
         ELSE [legacy EXCEPT !.calls[g].pc = "returned"]
  /\ UNCHANGED <<sessions, connections, closed, isProcessing,
                 conversationHistory, isHologram, activeCustomCharacters,
                 runs, status, emitted, interrupted, rejections,
                 availableVideos, resolved, evaluated>>
  /\ UNCHANGED cacheVars

\* saveManifest of instance g completes: manifest.json is replaced by the
\* instance's manifest.
LegacyGenerateVariantSaved(g, ok) ==
  /\ legacy.calls[g].pc = "save"
  /\ legacy' =
       IF ok
         THEN [legacy EXCEPT
                 !.diskManifest = legacy.calls[g].content,
                 !.generated = @ \cup {legacy.calls[g].key},
                 !.calls[g].pc = "returned",
                 !.calls[g].success = TRUE]
         ELSE [legacy EXCEPT !.calls[g].pc = "returned"]
  /\ UNCHANGED <<sessions, connections, closed, isProcessing,
                 conversationHistory, isHologram, activeCustomCharacters,
                 runs, status, emitted, interrupted, rejections,
                 availableVideos, resolved, evaluated>>
  /\ UNCHANGED cacheVars

\* The steps of a call of instance g after its start.
LegacyCallStep(g) ==
  \/ LegacyCheckCacheAccess(g)
  \/ \E ok \in BOOLEAN : LegacyGenerateVariantDownloaded(g, ok)
  \/ \E ok \in BOOLEAN : LegacyGenerateVariantSaved(g, ok)

Init ==
  /\ InitSessions
  /\ availableVideos = StandardLibrary
  /\ resolved = Null
  /\ evaluated = Null
  /\ legacy = InitLegacy
  /\ InitCache

\* The server started on any directory of standard videos.
InitMapper ==
  /\ InitSessions
  /\ availableVideos \in Libraries
  /\ resolved = Null
  /\ evaluated = Null
  /\ legacy = InitLegacy
  /\ InitCache

\* ------------------------------------- helper functions called on their own
\* The words of the texts: without a keyword, keywords of one and of several
\* categories, a capital, words that contain a keyword, the two halves of
\* a keyword of two words.
ClassifyWords ==
  {"hello", "Happy", "sad", "amazing", "joyful", "stressed", "fired", "up",
   "party"}

TextsUpTo(words, n) == UNION {[1..k -> words] : k \in 0..n}

\* A call of a helper function that has not returned yet, and its return.
Call(fn, args) == Some([fn |-> fn, args |-> args, result |-> Null])

Pending(fn) ==
  evaluated # Null /\ evaluated[1].fn = fn /\ evaluated[1].result = Null

Returned(fn) ==
  evaluated # Null /\ evaluated[1].fn = fn /\ evaluated[1].result # Null

ReturnOf(result) == Some([evaluated[1] EXCEPT !.result = Some(result)])

detectEmotion ==
  /\ Pending("detectEmotionFromText")
  /\ evaluated' = ReturnOf(detectEmotionFromText(evaluated[1].args[1],
                                                 evaluated[1].args[2]))
  /\ UNCHANGED <<sessions, connections, closed, isProcessing,
                 conversationHistory, isHologram, activeCustomCharacters,
                 runs, status, emitted, interrupted, rejections,
                 availableVideos, resolved, legacy>>
  /\ UNCHANGED cacheVars

\* The characters of the strings: a letter, a capital, a blank, punctuation.
Chars == {"a", "A", " ", "!"}

EmotionStrings == { <<"j">>, <<"J">> }

\* Two calls of generateCacheKey.
generateCacheKeys ==
  /\ Pending("generateCacheKey")
  /\ evaluated' =
       ReturnOf(<<generateCacheKeyOfString(evaluated[1].args[1],
                                           evaluated[1].args[2]),
                  generateCacheKeyOfString(evaluated[1].args[3],
                                           evaluated[1].args[4])>>)
  /\ UNCHANGED <<sessions, connections, closed, isProcessing,
                 conversationHistory, isHologram, activeCustomCharacters,
                 runs, status, emitted, interrupted, rejections,
                 availableVideos, resolved, legacy>>
  /\ UNCHANGED cacheVars

\* The turns kept in the context of the text model.
HistoryWindow == 10

\* Array.slice(start) taking the elements from the front instead.
sliceFromFront(list, start) ==
  LET n == Len(list)
      count == IF start < 0 THEN Min(0 - start, n) ELSE Max(n - start, 0)
  IN SubSeq(list, 1, count)

\* Array.slice(start): a copy of the elements from index start (counted from
\* the end when negative) to the end; the array itself is not changed.
slice(list, start) ==
  LET n == Len(list)
      begin == IF start < 0 THEN Max(n + start, 0) ELSE Min(start, n)
  IN SubSeq(list, begin + 1, n)

recentHistory(history) == slice(history, 0 - HistoryWindow)

\* The context handed to generateContent: the recent conversation, one line
\* per turn, and the current input (prompt and date left out).
context(userInput, history) ==
  [recent |-> [i \in 1..Len(recentHistory(history)) |->
                 [speaker |-> IF recentHistory(history)[i].role = "user"
                                THEN "Human" ELSE "Pocket Soul",
                  content |-> recentHistory(history)[i].content]],
   input |-> userInput]

\* What the users and the model say in the histories.
Contents == {<<"hello">>, <<"hi">>}

\* The histories of n turns at the call: the roles alternate and the last
\* turn is the user's input, pushed just before the call.
SessionHistories(n) ==
  {[i \in 1..n |-> [role |-> IF (n - i) % 2 = 0 THEN "user" ELSE "assistant",
                    content |-> said[i]]] : said \in [1..n -> Contents]}

\* generateResponse up to the await of generateContent: the context built and
\* the history as the call leaves it.
generateResponse ==
  /\ Pending("generateResponse")
  /\ evaluated' =
       ReturnOf([context |-> context(evaluated[1].args[1], evaluated[1].args[2]),
                 conversationHistory |-> evaluated[1].args[2]])
  /\ UNCHANGED <<sessions, connections, closed, isProcessing,
                 conversationHistory, isHologram, activeCustomCharacters,
                 runs, status, emitted, interrupted, rejections,
                 availableVideos, resolved, legacy>>
  /\ UNCHANGED cacheVars

\* MoodPipeline: the moods in the order of the keyword table.
moodKeywords ==
  << [mood |-> "happy",
      keywords |-> {"happy", "joy", "great", "awesome", "wonderful", "love",
                    "fantastic", "good"}],
     [mood |-> "sad",
      keywords |-> {"sad", "depressed", "down", "blue", "unhappy", "sorry",
                    "miss"}],
     [mood |-> "excited",
      keywords |-> {"excited", "amazing", "wow", "incredible", "fantastic",
                    "!"}],
     [mood |-> "calm",
      keywords |-> {"calm", "peaceful", "relax", "serene", "quiet",
                    "meditation"}],
     [mood |-> "angry",
      keywords |-> {"angry", "mad", "furious", "annoyed", "frustrated",
                    "hate"}] >>

\* The keywords and tested substrings inside the longer words of the texts.
substringsInside(word) ==
  IF word = "wow!" THEN {"wow", "!"}
  ELSE IF word = "counting" THEN {"count"}
  ELSE IF word = "unhappy" THEN {"happy"}
  ELSE {}

\* String.includes on the lower-cased text.
includes(text, substring) ==
  \E i \in 1..Len(text) :
    \/ toLowerCase(text[i]) = substring
    \/ substring \in substringsInside(toLowerCase(text[i]))

\* The first mood of the table with a keyword in the text, calm without one.
keywordMood(text) ==
  LET hits == {m \in 1..Len(moodKeywords) :
                 \E keyword \in moodKeywords[m].keywords : includes(text, keyword)}
  IN IF hits = {} THEN "calm"
     ELSE moodKeywords[CHOOSE m \in hits : \A q \in hits : m <= q].mood

\* MoodPipeline.detectMood: the keyword mood, adjusted by the vision vision.
detectMood(text, visionContext) ==
  IF text = <<>> THEN "calm"
  ELSE IF visionContext = Null THEN keywordMood(text)
  ELSE
    LET vision == visionContext[1]
        subdued ==
          IF ~vision.userPresent /\ keywordMood(text) = "excited" THEN "happy"
          ELSE IF ~vision.userPresent /\ keywordMood(text) = "angry" THEN "calm"
          ELSE keywordMood(text)
        engaged ==
          IF vision.engagement = "active" /\ subdued = "calm"
            THEN "happy" ELSE subdued
    IN IF /\ vision.fingerCount > 0
          /\ \/ includes(text, "count")
             \/ includes(text, "finger")
             \/ includes(text, "number")
         THEN "excited"
         ELSE engaged

\* The words of the texts given to detectMood.
MoodWords == {"hello", "Happy", "unhappy", "wow!", "mad", "counting", "fantastic"}

\* The vision contexts: every combination of the fields.
VisionContexts ==
  {Null} \cup
  {Some([userPresent |-> present, engagement |-> engagement,
         fingerCount |-> fingers, gesture |-> gesture]) :
     present \in BOOLEAN, engagement \in {"active", "passive"},
     fingers \in {0, 2}, gesture \in {"none", "wave"}}

\* processUserInput detecting the mood of its input.
processUserInput ==
  /\ Pending("detectMood")
  /\ evaluated' = ReturnOf(detectMood(evaluated[1].args[1], evaluated[1].args[2]))
  /\ UNCHANGED <<sessions, connections, closed, isProcessing,
                 conversationHistory, isHologram, activeCustomCharacters,
                 runs, status, emitted, interrupted, rejections,
                 availableVideos, resolved, legacy>>
  /\ UNCHANGED cacheVars

\* ---------------------------------------------------------- specifications
\* Spec: connection "a" converses (plain texts, both input paths) and may
\* interrupt and reset at any moment; connection "b" is a display.
Initiators == {"a"}

Displays == {"b"}

Next ==
  \/ \E s \in Sockets : Connection(s)
  \/ \E s \in Displays : \E type \in ClientTypes : Identify(s, type)
  \/ \E s \in Initiators : AudioForTranscription(s)
  \/ \E s \in Initiators : \E text \in {<<>>} \cup PlainTexts : TextInput(s, text)
  \/ \E s \in Initiators : Interrupt(s)
  \/ \E s \in Initiators : Reset(s)
  \/ \E r \in RunIds : \E transcript \in {<<>>} \cup PlainTexts :
       WhisperReturn(r, transcript)
  \/ \E r \in RunIds : WhisperThrow(r)
  \/ \E r \in RunIds : \E response \in ModelReplies : GeminiReturn(r, response)
  \/ \E r \in RunIds : \E ok \in BOOLEAN : TtsReturn(r, ok)

Spec == Init /\ [][Next]_vars

\* SpecPipeline: connection "a" converses, with custom character requests
\* and reset phrases, every stage of the pipeline and the cache behind it.
NextPipeline ==
  \/ \E s \in Initiators : Connection(s)
  \/ \E s \in Initiators : AudioForTranscription(s)
  \/ \E s \in Initiators : \E text \in Transcripts : TextInput(s, text)
  \/ \E r \in RunIds : \E transcript \in Transcripts : WhisperReturn(r, transcript)
  \/ \E r \in RunIds : WhisperThrow(r)
  \/ \E r \in RunIds : \E response \in ModelReplies : GeminiReturn(r, response)
  \/ \E r \in RunIds : \E fallback \in fallbacks : GeminiThrow(r, fallback)
  \/ \E r \in RunIds : CallStep(r)
  \/ \E r \in RunIds : CharacterReturn(r)
  \/ \E r \in RunIds : \E ok \in BOOLEAN : TtsReturn(r, ok)
  \/ \E f \in files : RemoveFile(f)

SpecPipeline == Init /\ [][NextPipeline]_vars

\* SpecCache: the generator called on its own (the generation API), with
\* video files removed from the cache directory behind its back.
NextCache ==
  \/ \E c \in ApiIds : \E rq \in Requests : getOrCreateVariant(c, rq[1], rq[2])
  \/ \E c \in ApiIds : CallStep(c)
  \/ \E f \in files : RemoveFile(f)

SpecCache == Init /\ [][NextCache]_vars

\* SpecBroadcast: connection "a" converses while both connections identify
\* in any role and disconnect at any moment.
NextBroadcast ==
  \/ \E s \in Sockets : Connection(s)
  \/ \E s \in Sockets : \E type \in ClientTypes : Identify(s, type)
  \/ \E s \in Sockets : Disconnect(s)
  \/ \E s \in Initiators : AudioForTranscription(s)
  \/ \E s \in Initiators : \E text \in PlainTexts : TextInput(s, text)
  \/ \E r \in RunIds : \E transcript \in PlainTexts : WhisperReturn(r, transcript)
  \/ \E r \in RunIds : \E response \in ModelReplies : GeminiReturn(r, response)
  \/ \E r \in RunIds : \E ok \in BOOLEAN : TtsReturn(r, ok)

SpecBroadcast == Init /\ [][NextBroadcast]_vars

\* SpecSessions: both connections converse by text, with character requests
\* that the generator fulfils, and interrupt and reset at any moment.
SessionTexts == PlainTexts \cup { <<"be", "a", "pirate">> }

NextSessions ==
  \/ \E s \in Sockets : Connection(s)
  \/ \E s \in Sockets : \E text \in SessionTexts : TextInput(s, text)
  \/ \E s \in Sockets : Interrupt(s)
  \/ \E s \in Sockets : Reset(s)
  \/ \E r \in RunIds : \E response \in ModelReplies : GeminiReturn(r, response)
  \/ \E r \in RunIds : generateVariantImage(r, TRUE)
  \/ \E r \in RunIds : generateVariantFal(r, "url")
  \/ \E r \in RunIds : generateVariantDownloaded(r, TRUE)
  \/ \E r \in RunIds : generateVariantSaved(r, TRUE)
  \/ \E r \in RunIds : checkCacheAccess(r)
  \/ \E r \in RunIds : CharacterReturn(r)
  \/ \E r \in RunIds : TtsReturn(r, TRUE)

SpecSessions == Init /\ [][NextSessions]_vars

\* SpecMapper: getVideoForEmotion called for every emotion on every library.
NextMapper == \E emotion \in ResolveInputs : ResolveVideo(emotion)

SpecMapper == InitMapper /\ [][NextMapper]_vars

\* SpecScan: the mapper initialised on any directory, refreshed at any moment
\* on any directory, and asked for videos in between.
InitScan ==
  /\ InitSessions
  /\ availableVideos \in {scanDirectory(listing) : listing \in Listings}
  /\ resolved = Null
  /\ evaluated = Null
  /\ legacy = InitLegacy
  /\ InitCache

NextScan ==
  \/ \E listing \in Listings : refresh(listing)
  \/ \E emotion \in ResolveInputs : ResolveVideo(emotion)

SpecScan == InitScan /\ [][NextScan]_vars

\* SpecClassify: detectEmotionFromText called on every pair of short texts.
InitClassify ==
  /\ InitSessions
  /\ availableVideos = StandardLibrary
  /\ resolved = Null
  /\ evaluated \in {Call("detectEmotionFromText", <<userInput, aiResponse>>) :
                       userInput \in TextsUpTo(ClassifyWords, MaxWords),
                       aiResponse \in TextsUpTo(ClassifyWords, 1)}
  /\ legacy = InitLegacy
  /\ InitCache

NextClassify == detectEmotion

SpecClassify == InitClassify /\ [][NextClassify]_vars

\* SpecFingerprint: generateCacheKey called on every two pairs of short
\* strings.
InitFingerprint ==
  /\ InitSessions
  /\ availableVideos = StandardLibrary
  /\ resolved = Null
  /\ evaluated \in {Call("generateCacheKey", <<e1, d1, e2, d2>>) :
                       e1 \in EmotionStrings, d1 \in TextsUpTo(Chars, MaxChars),
                       e2 \in EmotionStrings, d2 \in TextsUpTo(Chars, MaxChars)}
  /\ legacy = InitLegacy
  /\ InitCache

NextFingerprint == generateCacheKeys

SpecFingerprint == InitFingerprint /\ [][NextFingerprint]_vars

\* SpecContext: generateResponse called with every history of up to MaxTurns
\* turns, the input being the last turn.
InitContext ==
  /\ InitSessions
  /\ availableVideos = StandardLibrary
  /\ resolved = Null
  /\ evaluated \in {Call("generateResponse", <<history[Len(history)].content, history>>) :
                       history \in UNION {SessionHistories(n) : n \in 1..MaxTurns}}
  /\ legacy = InitLegacy
  /\ InitCache

NextContext == generateResponse

SpecContext == InitContext /\ [][NextContext]_vars

\* SpecMood: detectMood called on every short text with every vision context.
InitMood ==
  /\ InitSessions
  /\ availableVideos = StandardLibrary
  /\ resolved = Null
  /\ evaluated \in {Call("detectMood", <<text, visionContext>>) :
                       text \in TextsUpTo(MoodWords, MaxWords),
                       visionContext \in VisionContexts}
  /\ legacy = InitLegacy
  /\ InitCache

NextMood == processUserInput

SpecMood == InitMood /\ [][NextMood]_vars

\* SpecReferenceFair: the reference-image generator called on its own; every
\* step of a call is eventually taken except the answer of the video
\* collaborator, which may never come.
NextReference ==
  \/ \E c \in ApiIds : \E rq \in Requests : getOrCreateVariant(c, rq[1], rq[2])
  \/ \E c \in ApiIds : CallStepReference(c)
  \/ \E f \in files : RemoveFile(f)

SpecReferenceFair ==
  /\ Init
  /\ [][NextReference]_vars
  /\ \A c \in ApiIds : WF_vars(LocalStepReference(c))

\* SpecDisconnect: connection "a" types plain texts and custom character
\* requests and disconnects at any moment.
NextDisconnect ==
  \/ \E s \in Initiators : Connection(s)
  \/ \E s \in Initiators :
       \E text \in PlainTexts \cup { <<"be", "a", "pirate">> } : TextInput(s, text)
  \/ \E s \in Initiators : Disconnect(s)
  \/ \E r \in RunIds : \E response \in ModelReplies : GeminiReturn(r, response)
  \/ \E r \in RunIds : CallStep(r)
  \/ \E r \in RunIds : CharacterReturn(r)
  \/ \E r \in RunIds : \E ok \in BOOLEAN : TtsReturn(r, ok)
  \/ \E f \in files : RemoveFile(f)

SpecDisconnect == Init /\ [][NextDisconnect]_vars

\* SpecLegacyAudio: two clients of the legacy server submit audio over HTTP
\* while a socket is connected.
NextLegacyAudio ==
  \/ \E s \in Displays : LegacyConnection(s)
  \/ \E client \in HttpClients : LegacyProcessAudioInput(client)
  \/ \E transcript \in {<<>>} \cup PlainTexts : LegacyWhisperReturn(transcript)
  \/ LegacyWhisperThrow
  \/ LegacyGenerateResponseReturn
  \/ \E ok \in BOOLEAN : LegacyGenerateAudioReturn(ok)

SpecLegacyAudio == Init /\ [][NextLegacyAudio]_vars

\* SpecLegacyCharacter: the conversation module of the legacy server with
\* character requests in the transcripts.
NextLegacyCharacter ==
  \/ \E s \in Displays : LegacyConnection(s)
  \/ \E client \in {"x"} : LegacyProcessAudioInput(client)
  \/ \E transcript \in LegacyTranscripts : LegacyWhisperReturn(transcript)
  \/ LegacyWhisperThrow
  \/ LegacyCallStep("conversation")
  \/ LegacyCharacterReturn
  \/ LegacyGenerateResponseReturn
  \/ \E ok \in BOOLEAN : LegacyGenerateAudioReturn(ok)

SpecLegacyCharacter == Init /\ [][NextLegacyCharacter]_vars

\* SpecLegacyGenerators: the generator instances of the legacy server called
\* through the API router, the server's text endpoint and a spoken request.
NextLegacyGenerators ==
  \/ \E g \in {"router", "server"} :
       \E rq \in Requests : LegacyGetOrCreateVariant(g, rq[1], rq[2])
  \/ \E g \in Generators : LegacyCallStep(g)
  \/ \E client \in {"x"} : LegacyProcessAudioInput(client)
  \/ \E transcript \in LegacyTranscripts : LegacyWhisperReturn(transcript)
  \/ LegacyCharacterReturn
  \/ LegacyGenerateResponseReturn
  \/ \E ok \in BOOLEAN : LegacyGenerateAudioReturn(ok)

SpecLegacyGenerators == Init /\ [][NextLegacyGenerators]_vars

\* SpecEmptyTranscript: audio submitted to the integrated server by
\* connection "a" and to the legacy server by client "x", with transcripts
\* that are empty, blank or a plain text.
AudioTranscripts == {<<>>, <<" ">>} \cup PlainTexts

NextEmptyTranscript ==
  \/ \E s \in Sockets : Connection(s)
  \/ \E s \in Displays : Identify(s, "hologram")
  \/ \E s \in Initiators : AudioForTranscription(s)
  \/ \E r \in RunIds : \E transcript \in AudioTranscripts :
       WhisperReturn(r, transcript)
  \/ \E r \in RunIds : \E response \in ModelReplies : GeminiReturn(r, response)
  \/ \E r \in RunIds : \E ok \in BOOLEAN : TtsReturn(r, ok)
  \/ \E s \in Displays : LegacyConnection(s)
  \/ \E client \in {"x"} : LegacyProcessAudioInput(client)
  \/ \E transcript \in AudioTranscripts : LegacyWhisperReturn(transcript)
  \/ LegacyGenerateResponseReturn
  \/ \E ok \in BOOLEAN : LegacyGenerateAudioReturn(ok)

SpecEmptyTranscript == Init /\ [][NextEmptyTranscript]_vars

\* SpecLegacy: the legacy server with its clients, turns submitted over HTTP
\* (transcripts without a character request) and the generation API.
NextLegacy ==
  \/ \E s \in Sockets : LegacyConnection(s)
  \/ \E s \in Sockets : \E type \in ClientTypes : LegacyIdentify(s, type)
  \/ \E client \in {"x"} : LegacyProcessAudioInput(client)
  \/ \E transcript \in {<<>>} \cup PlainTexts : LegacyWhisperReturn(transcript)
  \/ LegacyWhisperThrow
  \/ LegacyGenerateResponseReturn
  \/ \E ok \in BOOLEAN : LegacyGenerateAudioReturn(ok)
  \/ \E success \in BOOLEAN : LegacyGenerate(success)
  \/ \E s \in Sockets : LegacyDisconnect(s)

SpecLegacy == Init /\ [][NextLegacy]_vars

\* SpecFair: Spec's conversation without interrupt and reset, where every
\* collaborator call of a run eventually settles (one way or the other).
NextFair ==
  \/ \E s \in Sockets : Connection(s)
  \/ \E s \in Displays : \E type \in ClientTypes : Identify(s, type)
  \/ \E s \in Initiators : AudioForTranscription(s)
  \/ \E s \in Initiators : \E text \in {<<>>} \cup PlainTexts : TextInput(s, text)
  \/ \E r \in RunIds : \E transcript \in {<<>>} \cup PlainTexts :
       WhisperReturn(r, transcript)
  \/ \E r \in RunIds : WhisperThrow(r)
  \/ \E r \in RunIds : \E response \in ModelReplies : GeminiReturn(r, response)
  \/ \E r \in RunIds : \E ok \in BOOLEAN : TtsReturn(r, ok)

\* The pending collaborator call of run r settles.
Settle(r) ==
  \/ \E transcript \in {<<>>} \cup PlainTexts : WhisperReturn(r, transcript)
  \/ WhisperThrow(r)
  \/ \E response \in ModelReplies : GeminiReturn(r, response)
  \/ \E ok \in BOOLEAN : TtsReturn(r, ok)

SpecFair ==
  /\ Init
  /\ [][NextFair]_vars
  /\ \A r \in RunIds : WF_vars(Settle(r))

\* SpecReset: connection "a" types plain texts and custom character
\* requests and may reset the conversation at any moment; video files may
\* be removed from the cache directory.
NextReset ==
  \/ \E s \in Initiators : Connection(s)
  \/ \E s \in Initiators :
       \E text \in PlainTexts \cup { <<"be", "a", "pirate">> } : TextInput(s, text)
  \/ \E s \in Initiators : Reset(s)
  \/ \E r \in RunIds : \E response \in ModelReplies : GeminiReturn(r, response)
  \/ \E r \in RunIds : CallStep(r)
  \/ \E r \in RunIds : CharacterReturn(r)
  \/ \E r \in RunIds : \E ok \in BOOLEAN : TtsReturn(r, ok)
  \/ \E f \in files : RemoveFile(f)

SpecReset == Init /\ [][NextReset]_vars

\* ------------------------------------------------------------------ claims
\* The runs of session s that were accepted and have not finished.
RunsInFlight(s) == {r \in RunIds : InFlight(r) /\ runs[r].sock = s}

\* C1: at any time at most one pipeline run of a session is in flight,
\* whatever the interleaving of submissions, interrupt, reset and the
\* completions of collaborator calls.
C1_AtMostOneRunInFlight ==
  \A s \in Sockets : Cardinality(RunsInFlight(s)) <= 1

\* C2: getOrCreate calls with the same fingerprint that all start while the
\* cache has no entry for it lead to one invocation of the generation
\* collaborator: no two of them are generating at the same time.
Generating(c) == calls[c].sawEmpty /\ calls[c].pc \in {"fal", "curl", "save"}

C2_OneGenerationPerFingerprint ==
  \A c1, c2 \in CallIds :
    (Generating(c1) /\ Generating(c2) /\ calls[c1].key = calls[c2].key)
      => c1 = c2

C4_BusyIffOneRunInFlight ==
  \A s \in Sockets : isProcessing[s] <=> Cardinality(RunsInFlight(s)) = 1

\* C5: once a getOrCreate call has succeeded and its file has not been
\* removed, every later getOrCreate with the same inputs returns cached=true
\* and the same filename, and invokes no generation.
C5_LaterCallsAreCached ==
  \A c1, c2 \in CallIds :
    ( /\ c1 \in calls[c2].after
      /\ calls[c2].pc = "returned"
      /\ calls[c1].key = calls[c2].key
      /\ calls[c1].result.path[1] \in files )
    => /\ calls[c2].result.success
       /\ calls[c2].result.cached
       /\ ~calls[c2].invoked
       /\ calls[c2].result.path = calls[c1].result.path

C7_EmptyTranscriptClearsBusy ==
  [][ \A r \in RunIds :
        (runs[r].pc = "whisper" /\ runs'[r].outcome = "empty")
          => /\ ~isProcessing'[runs[r].sock]
             /\ status'[runs[r].sock] = "idle" ]_vars

\* C8: every accepted submission is eventually followed by a state in which
\* the session's busy flag is false and an idle status has been reported.
C8_EventuallyIdle ==
  \A s \in Initiators :
    isProcessing[s] ~> (~isProcessing[s] /\ status[s] = "idle")

\* C9: once interrupt has been handled while a run was in flight, that run
\* emits no conversation-complete or display-content event and changes
\* neither the session's history nor its active custom character.
C9_InterruptedRunIsDiscarded ==
  [][ \A r \in interrupted :
        (runs'[r] # runs[r])
          => /\ \A e \in emitted' \ emitted :
                  e.run = r =>
                    e.type \notin {"conversation-complete", "display-content"}
             /\ conversationHistory'[runs[r].sock] =
                  conversationHistory[runs[r].sock]
             /\ activeCustomCharacters' = activeCustomCharacters ]_vars

\* C10: when voice synthesis fails in an accepted turn, a
\* conversation-complete bundle with null audio and an error annotation goes
\* to the originating connection and display-content with null audio to
\* every viewer.
C10_VoiceFailureStillCompletes ==
  [][ \A r \in RunIds :
        (runs[r].pc = "tts" /\ runs'[r].outcome = "voice-failed")
          => /\ \E e \in emitted' :
                  /\ e.type = "conversation-complete" /\ e.run = r
                  /\ e.to = runs[r].sock /\ ~e.audio /\ e.error
             /\ \A h \in hologramConnections :
                  \E e \in emitted' :
                    /\ e.type = "display-content" /\ e.run = r
                    /\ e.to = h /\ ~e.audio ]_vars

\* The turns of a session's history.
Turns(s) == {conversationHistory[s][i] : i \in DOMAIN conversationHistory[s]}

\* C11: when the text-generation call throws, the reply of the turn is one
\* of the fixed fallback utterances, it is appended to the history as the
\* assistant turn, and the run goes on through the asset and voice stages
\* instead of ending at the failure.
C11_ProviderFailureFallsBack ==
  \A r \in RunIds :
    runs[r].providerFailed
      => /\ runs[r].response \in fallbacks
         /\ Turn("assistant", runs[r].response, r) \in Turns(runs[r].sock)
         /\ runs[r].pc \in {"character", "tts", "done"}
         /\ runs[r].pc = "done"
              => runs[r].outcome \in {"complete", "voice-failed"}

\* A run whose text generation threw has completed with its bundle emitted.
C11_Witness ==
  \E r \in RunIds :
    /\ runs[r].providerFailed
    /\ runs[r].outcome = "complete"
    /\ \E e \in emitted : e.type = "conversation-complete" /\ e.run = r

\* The character stage of run r has ended with a failure result or a
\* rejection of getOrCreateVariant.
CharacterFailed(r) ==
  /\ runs[r].pc \in {"tts", "done"}
  /\ calls[r].pc = "returned"
  /\ (calls[r].result.thrown \/ ~calls[r].result.success)

\* The active custom character of session s, if any.
ActiveOf(s) ==
  IF s \in DOMAIN activeCustomCharacters
    THEN Some(activeCustomCharacters[s]) ELSE Null

Bundles(r) ==
  {e \in emitted : e.run = r /\ e.type \in {"conversation-complete",
                                            "display-content"}}

\* C12 as stated: when getOrCreate fails or throws in a turn, the turn goes
\* on, its bundle carries the standard asset of the detected emotion without
\* custom-character metadata, and the session's active custom character is
\* what it was before the turn.
C12_CustomFailureFallsBackUnchanged ==
  \A r \in RunIds :
    CharacterFailed(r)
      => /\ runs[r].outcome # "failed"
         /\ runs[r].customVideo = Null
         /\ runs[r].video = getVideoForEmotion(runs[r].detectedEmotion)
         /\ \A e \in Bundles(r) :
              /\ e.video = StandardVideoData(getVideoForEmotion(runs[r].detectedEmotion))
              /\ e.customCharacter = Null
         /\ runs[r].pc = "tts" => ActiveOf(runs[r].sock) = runs[r].activeBefore

\* C12 amended: as above, and the failed call leaves the active custom
\* character as it was when the call was made: what it was before the turn,
\* or none when the text path found a reset phrase in the same input.
C12_CustomFailureFallsBack ==
  \A r \in RunIds :
    CharacterFailed(r)
      => /\ runs[r].outcome # "failed"
         /\ runs[r].customVideo = Null
         /\ runs[r].video = getVideoForEmotion(runs[r].detectedEmotion)
         /\ \A e \in Bundles(r) :
              /\ e.video = StandardVideoData(getVideoForEmotion(runs[r].detectedEmotion))
              /\ e.customCharacter = Null
         /\ runs[r].pc = "tts"
              => ActiveOf(runs[r].sock) =
                   IF runs[r].path = "text" /\ resetCommandIn[runs[r].text]
                     THEN Null ELSE runs[r].activeBefore

\* A turn continuing an active custom character had its getOrCreate fail and
\* has delivered its bundle, the character still active.
C12_Witness ==
  \E r \in RunIds :
    /\ CharacterFailed(r)
    /\ runs[r].activeBefore # Null
    /\ customCharacterRequestOf[runs[r].text] = Null
    /\ runs[r].outcome = "complete"
    /\ Bundles(r) # {}
    /\ ActiveOf(runs[r].sock) = runs[r].activeBefore

\* C13: in a session with an active custom character, a turn (audio or text
\* path) whose input contains a reset phrase ends with the session having no
\* active custom character, so that later turns without a request use the
\* standard path. Stated for inputs that carry no trigger beside the reset
\* phrase.
C13_ResetPhraseClearsCharacter ==
  [][ \A r \in RunIds :
        ( /\ runs[r].pc = "tts" /\ runs'[r].pc = "done"
          /\ resetCommandIn[runs[r].text]
          /\ customCharacterRequestOf[runs[r].text] = Null
          /\ runs[r].activeBefore # Null )
        => runs[r].sock \notin DOMAIN activeCustomCharacters' ]_vars

\* Run r is a turn of a session with an active custom character whose input
\* has neither a trigger nor a reset phrase, past its reply.
Continuing(r) ==
  /\ runs[r].pc \in {"character", "tts", "done"}
  /\ runs[r].activeBefore # Null
  /\ customCharacterRequestOf[runs[r].text] = Null
  /\ ~resetCommandIn[runs[r].text]

\* C14: with an active custom character of description D, a turn whose input
\* has neither a trigger nor a reset phrase calls getOrCreate(detected
\* emotion, D); on success the active custom character keeps D and takes the
\* detected emotion of the turn.
C14_ContinuesActiveCharacter ==
  \A r \in RunIds :
    Continuing(r)
      => /\ calls[r].pc # "idle"
         /\ calls[r].emotion = runs[r].detectedEmotion
         /\ calls[r].description = runs[r].activeBefore[1].description
         /\ (runs[r].pc = "tts" /\ calls[r].result.success)
              => /\ ActiveOf(runs[r].sock) # Null
                 /\ ActiveOf(runs[r].sock)[1].description =
                      runs[r].activeBefore[1].description
                 /\ ActiveOf(runs[r].sock)[1].emotion = runs[r].detectedEmotion

\* Such a turn has succeeded with a detected emotion other than the one the
\* character was stored with.
C14_Witness ==
  \E r \in RunIds :
    /\ Continuing(r)
    /\ runs[r].pc = "tts"
    /\ calls[r].result.success
    /\ runs[r].activeBefore[1].emotion # runs[r].detectedEmotion
    /\ ActiveOf(runs[r].sock)[1].emotion = runs[r].detectedEmotion

\* C15: after reset is handled for a session that is idle, the session's
\* history is empty and the session has no active custom character.
C15_ResetClearsHistoryAndCharacter ==
  [][ \A s \in Sockets :
        ( /\ ResetComplete(s) \notin emitted
          /\ ResetComplete(s) \in emitted'
          /\ ~isProcessing[s]
          /\ RunsInFlight(s) = {} )
        => /\ conversationHistory'[s] = <<>>
           /\ s \notin DOMAIN activeCustomCharacters' ]_vars

\* C16: a reset handled while a run of the session is in flight is rejected:
\* it changes neither the busy flag nor the history of the session.
C16_ResetInFlightRejected ==
  [][ \A s \in Sockets :
        ( /\ ResetComplete(s) \notin emitted
          /\ ResetComplete(s) \in emitted'
          /\ RunsInFlight(s) # {} )
        => /\ isProcessing'[s] = isProcessing[s]
           /\ conversationHistory'[s] = conversationHistory[s] ]_vars

\* C17: a connection that has not sent an identify message never receives a
\* broadcast of turn output (audio response, custom-character-ready); here
\* for the legacy server and the generate endpoint of its API router.
TurnOutput == {"audio-response", "custom-character-ready"}

C17_UnidentifiedReceivesNoBroadcast ==
  \A d \in legacy.delivered :
    d.event \in TurnOutput => d.to \in legacy.identified

\* C18: in the step that completes a turn, the bundle goes to the originating
\* connection (when it is still connected) and display-content goes to
\* exactly the connections that are registered as displays at that moment;
\* no connection that has disconnected and no connection in another role
\* receives display-content.
Completing(r) ==
  /\ runs[r].pc = "tts"
  /\ runs'[r].pc = "done"
  /\ \/ runs'[r].outcome = "complete"
     \/ runs'[r].outcome = "voice-failed" /\ runs[r].path = "text"

EmittedInStep(type) == {e \in emitted' \ emitted : e.type = type}

C18_BundleToOriginDisplayToViewers ==
  [][\A r \in RunIds :
       Completing(r) =>
         /\ {e.to : e \in EmittedInStep("conversation-complete")}
              = {runs[r].sock} \ closed
         /\ {e.to : e \in EmittedInStep("display-content")}
              = {c \in connections : isHologram[c]}
         /\ \A e \in EmittedInStep("display-content") :
              e.to \notin closed /\ e.run = r
         /\ \A e \in EmittedInStep("conversation-complete") : e.run = r]_vars

C18_Witness ==
  \E r1, r2 \in RunIds :
    /\ \E e \in emitted : e.type = "display-content" /\ e.run = r1 /\ e.to = "b"
    /\ "b" \in closed
    /\ \E e \in emitted :
         e.type = "conversation-complete" /\ e.run = r2 /\ e.to = "a"
    /\ \A e \in emitted : e.type = "display-content" => e.run # r2

\* C19: getVideoForEmotion returns a video of the emotion asked for when the
\* library has one; otherwise a video of the first emotion of that emotion's
\* fallback list that has a video, whatever the fallback lists of the
\* fallback emotions would lead to.
HasVideo(emotion) ==
  \E i \in 1..Len(availableVideos) : availableVideos[i].emotion = emotion

FallbackList(emotion) ==
  IF emotion \in DOMAIN fallbackMap THEN fallbackMap[emotion] ELSE <<"neutral">>

HasFallbackVideo(emotion) ==
  \E i \in 1..Len(FallbackList(emotion)) : HasVideo(FallbackList(emotion)[i])

C19_OwnVideoThenFirstFallback ==
  resolved # Null =>
    LET emotion == toLowerCase(resolved[1].emotion)
        video == resolved[1].video
        list == FallbackList(emotion)
    IN /\ HasVideo(emotion) => video # Null /\ video[1].emotion = emotion
       /\ ~HasVideo(emotion) /\ HasFallbackVideo(emotion) =>
            /\ video # Null
            /\ \E i \in 1..Len(list) :
                 /\ HasVideo(list[i])
                 /\ \A j \in 1..(i - 1) : ~HasVideo(list[j])
                 /\ video[1].emotion = list[i]

C19_Witness ==
  /\ resolved # Null
  /\ resolved[1].emotion = "anger"
  /\ ~HasVideo("anger") /\ ~HasVideo("disgust")
  /\ HasVideo("fear") /\ HasVideo("anxiety")
  /\ availableVideos[1].emotion = "anxiety"
  /\ resolved[1].video # Null
  /\ resolved[1].video[1].emotion = "fear"

\* C20 (as claimed): for an emotion with no video of its own and none of any
\* emotion of its fallback list, getVideoForEmotion returns null.
C20_NullWithoutOwnOrFallbackVideo ==
  resolved # Null =>
    LET emotion == toLowerCase(resolved[1].emotion)
    IN ~HasVideo(emotion) /\ ~HasFallbackVideo(emotion) =>
         resolved[1].video = Null

\* C20 (amended): for such an emotion getVideoForEmotion returns the first
\* video of the library, whatever its emotion, and null only when the
\* library is empty.
C20_FirstVideoOrNullWhenEmpty ==
  resolved # Null =>
    LET emotion == toLowerCase(resolved[1].emotion)
    IN ~HasVideo(emotion) /\ ~HasFallbackVideo(emotion) =>
         resolved[1].video =
           IF Len(availableVideos) = 0 THEN Null ELSE Some(availableVideos[1])

C20_Witness ==
  /\ resolved # Null
  /\ resolved[1].emotion = "joy"
  /\ ~HasVideo("joy") /\ ~HasFallbackVideo("joy")
  /\ resolved[1].video # Null
  /\ resolved[1].video[1].emotion = "sadness"

\* C21: detectEmotionFromText returns the category with the highest keyword
\* count in the combined text, among several with the highest count the one
\* declared first, and neutral when every count is zero.
Detected == Returned("detectEmotionFromText")

CountOf(emotion) ==
  emotionScore(emotion, combinedText(evaluated[1].args[1], evaluated[1].args[2]))

C21_HighestCountFirstDeclared ==
  Detected =>
    IF \A i \in 1..Len(emotionOrder) : CountOf(emotionOrder[i]) = 0
      THEN evaluated[1].result = Some("neutral")
      ELSE \E i \in 1..Len(emotionOrder) :
             /\ evaluated[1].result = Some(emotionOrder[i])
             /\ \A j \in 1..Len(emotionOrder) :
                  CountOf(emotionOrder[j]) <= CountOf(emotionOrder[i])
             /\ \A j \in 1..(i - 1) :
                  CountOf(emotionOrder[j]) < CountOf(emotionOrder[i])

C21_Witness ==
  /\ Detected
  /\ evaluated[1].args = << <<"joyful">>, <<"party">> >>
  /\ CountOf("happiness") = 2 /\ CountOf("joy") = 2
  /\ evaluated[1].result = Some("happiness")

\* C22: two (emotion, description) pairs that are equal after lower-casing,
\* stripping the characters that are neither alphanumeric nor blank and
\* collapsing runs of blanks get the same key from generateCacheKey.
Stripped(string) ==
  SelectSeq([i \in 1..Len(string) |-> toLowerCase(string[i])],
            LAMBDA c : c \in LowerAlphanumerics \cup {" "})

RECURSIVE CollapsedFrom(_, _)
CollapsedFrom(string, i) ==
  IF i > Len(string) THEN <<>>
  ELSE IF string[i] = " " /\ i > 1 /\ string[i - 1] = " "
    THEN CollapsedFrom(string, i + 1)
    ELSE <<string[i]>> \o CollapsedFrom(string, i + 1)

Normalization(string) == CollapsedFrom(Stripped(string), 1)

C22_EqualNormalizedInputsSameKey ==
  Returned("generateCacheKey") =>
    LET args == evaluated[1].args
        keys == evaluated[1].result[1]
    IN /\ Normalization(args[1]) = Normalization(args[3])
       /\ Normalization(args[2]) = Normalization(args[4])
       => keys[1] = keys[2]

\* C23: a call of getOrCreateVariant that waits for the video collaborator
\* eventually returns, whether or not the collaborator ever answers.
C23_GenerationEventuallyReturns ==
  \A c \in CallIds :
    (calls[c].pc \in {"fal", "fal_reference"}) ~> (calls[c].pc = "returned")

\* C24: once the disconnect of a connection has been handled, no session,
\* no connection record and no active custom character is kept under its id.
C24_NothingKeptAfterDisconnect ==
  \A s \in closed :
    /\ s \notin sessions
    /\ s \notin connections
    /\ s \notin DOMAIN activeCustomCharacters

\* C25: a submission is rejected at the busy test only on account of a run
\* of the submitting client itself, never of another client.
C25_RejectedOnlyByOwnRun ==
  legacy.rejection # Null =>
    legacy.rejection[1].client = legacy.rejection[1].owner

\* C26: an audio run whose transcript is empty or blank emits no
\* conversation-complete and no display-content, calls no collaborator after
\* the transcription and appends no turn to the history; in the integrated
\* server (per run) and in the legacy server (the step that aborts).
Aborted(r) ==
  /\ runs[r].path = "audio"
  /\ runs[r].pc \notin {"free", "whisper"}
  /\ runs[r].outcome # "failed"
  /\ trim(runs[r].text) = <<>>

LegacyAborting ==
  /\ legacy.stage = "transcribing"
  /\ ~legacy'.isProcessing
  /\ legacy'.responses[legacy.origin] = "No speech detected"

C26_EmptyTranscriptLeavesNoTrace ==
  [][/\ \A r \in RunIds :
          Aborted(r)' =>
            /\ runs'[r].pc = "done"
            /\ runs'[r].response = <<>>
            /\ calls'[r].pc = "idle"
            /\ \A e \in emitted' :
                 e.run = r => e.type \notin {"conversation-complete",
                                             "display-content"}
            /\ \A s \in Sockets :
                 \A i \in 1..Len(conversationHistory'[s]) :
                   conversationHistory'[s][i].run # r
     /\ LegacyAborting =>
          /\ legacy'.stage = "idle"
          /\ legacy'.rejection = legacy.rejection
          /\ legacy'.conversationHistory = legacy.conversationHistory
          /\ \A d \in legacy'.delivered \ legacy.delivered :
               d.event = "audio-status"]_vars

C26_Witness ==
  /\ \E r \in RunIds : Aborted(r) /\ runs[r].text = <<" ">>
  /\ Len(conversationHistory["a"]) = 2
  /\ "b" \in hologramConnections
  /\ legacy.responses["x"] = "No speech detected"
  /\ legacy.rejection = Null
  /\ Len(legacy.conversationHistory) = 2
  /\ legacy.connections # {}

\* The video resolved in a run's emotion and asset stage: the custom video
\* when the generator supplied one, otherwise the standard video of the
\* detected emotion.
ResolvedVideoData(r) ==
  IF runs[r].customVideo # Null THEN runs[r].customVideo
  ELSE StandardVideoData(runs[r].video)

\* C27: when voice synthesis fails in a turn, the video field of every bundle
\* delivered for that turn is the video resolved in the turn's asset stage,
\* standard or custom; a resolved custom video is never replaced by null.
C27_VoiceFailureKeepsResolvedVideo ==
  \A r \in RunIds :
    runs[r].outcome = "voice-failed"
      => \A e \in Bundles(r) : e.video = ResolvedVideoData(r)

\* A step in which a submission is turned away at the busy test.
RejectedAsBusy == rejections' # rejections /\ rejections'.busy

LegacyRejectedAsBusy ==
  legacy'.rejection # Null /\ legacy'.rejection # legacy.rejection

\* C28: a submission rejected because a run is in flight is reported to the
\* submitter as busy: the integrated server sends a signal in that step, and
\* the legacy server does not answer it with another outcome such as
\* 'No speech detected'.
C28_BusyRejectionReportedAsBusy ==
  [][/\ RejectedAsBusy => (status' # status \/ emitted' # emitted)
     /\ LegacyRejectedAsBusy =>
          legacy'.responses[legacy'.rejection[1].client] = "busy"]_vars

\* C29: the role of a connection is set at most once: a connection that an
\* identify message has made a viewer stays a viewer while it is connected
\* (integrated server), and the role of a connection that has identified is
\* not changed by a later identify message (legacy server).
C29_RoleSetAtMostOnce ==
  [][/\ \A s \in Sockets :
          (isHologram[s] /\ s \in connections') => isHologram'[s]
     /\ \A s \in legacy.identified :
          s \in legacy'.connections =>
            legacy'.isHologram[s] = legacy.isHologram[s]]_vars

\* C30: the history in the context of a call of the text model is exactly
\* the last min(10, n) turns of the history of n turns, in order, and the
\* stored history is the same after the context has been built.
C30_ContextIsLastTenTurnsInOrder ==
  Returned("generateResponse") =>
    LET history == evaluated[1].args[2]
        n == Len(history)
        k == IF n < 10 THEN n ELSE 10
        result == evaluated[1].result[1]
    IN /\ Len(result.context.recent) = k
       /\ \A i \in 1..k :
            /\ result.context.recent[i].content = history[n - k + i].content
            /\ result.context.recent[i].speaker = "Human"
                 <=> history[n - k + i].role = "user"
       /\ result.conversationHistory = history

C30_Witness ==
  /\ Returned("generateResponse")
  /\ Len(evaluated[1].args[2]) = 11
  /\ evaluated[1].args[2][1].content # evaluated[1].args[2][11].content
  /\ Len(evaluated[1].result[1].context.recent) = 10
  /\ evaluated[1].result[1].context.recent[1].speaker = "Pocket Soul"

\* C31: when the vision context says that no user is present, the mood
\* returned is neither excited nor angry, whatever the text and the other
\* fields of the context.
C31_NoUserNeverExcitedNorAngry ==
  (/\ Returned("detectMood")
   /\ evaluated[1].args[2] # Null
   /\ ~evaluated[1].args[2][1].userPresent)
    => evaluated[1].result[1] \notin {"excited", "angry"}

\* C32: after a scan or refresh, the video returned for an emotion whose
\* bucket holds several videos is a video of that bucket with the greatest
\* timestamp of the bucket.
Bucket(emotion) ==
  {availableVideos[i] : i \in {j \in 1..Len(availableVideos) :
                                 availableVideos[j].emotion = emotion}}

C32_MostRecentOfBucket ==
  resolved # Null =>
    LET bucket == Bucket(toLowerCase(resolved[1].emotion))
    IN Cardinality(bucket) >= 2 =>
         /\ resolved[1].video # Null
         /\ resolved[1].video[1] \in bucket
         /\ \A v \in bucket : resolved[1].video[1].timestamp >= v.timestamp

C32_Witness ==
  /\ resolved # Null
  /\ resolved[1].emotion = "Joy"
  /\ Cardinality(Bucket("joy")) = 2
  /\ \E v \in Bucket("joy") : v.timestamp = 0
  /\ resolved[1].video[1].timestamp = 1
  /\ availableVideos[1].emotion = "neutral"

\* The inputs of the model without a custom-character trigger.
WithoutTrigger == {t \in Transcripts : detectCustomCharacterRequest(t) = Null}

\* Run r is a turn without a trigger in its input, of a session that has no
\* active custom character when the turn looks for one, past its reply.
Plain(r) ==
  /\ runs[r].pc \in {"character", "tts", "done"}
  /\ runs[r].outcome \notin {"failed", "empty"}
  /\ runs[r].activeBefore = Null
  /\ runs[r].text \in WithoutTrigger

\* C33: such a turn never calls getOrCreateVariant, never emits the status
\* generating-character, and every bundle it delivers has no custom-character
\* metadata and carries the standard video of the detected emotion.
C33_PlainTurnStaysStandard ==
  [][\A r \in RunIds :
       Plain(r)' =>
         /\ calls'[r].pc = "idle"
         /\ runs'[r].pc # "character"
         /\ runs'[r].customVideo = Null
         /\ runs[r].pc = "gemini" =>
              status'[runs[r].sock] # "generating-character"
         /\ \A e \in emitted' :
              (e.run = r /\ e.type \in {"conversation-complete", "display-content"})
                => /\ e.customCharacter = Null
                   /\ e.video = StandardVideoData(
                                   getVideoForEmotion(runs'[r].detectedEmotion))]_vars

C33_Witness ==
  \E r \in RunIds :
    /\ Plain(r)
    /\ runs[r].text = <<"hello">>
    /\ runs[r].outcome = "complete"
    /\ \E e \in Bundles(r) : e.video # Null /\ e.customCharacter = Null

\* The manifest holding the entry of this file has been written to disk: the
\* generation that made the file has returned from its saveManifest.
Persisted(path) ==
  \E d \in CallIds :
    /\ calls[d].pc = "returned"
    /\ calls[d].result.success
    /\ ~calls[d].result.cached
    /\ calls[d].result.path = path

\* C34: a manifest entry is served as a cache hit only after the manifest
\* containing it has been written to disk.
C34_PersistedBeforeServed ==
  [][\A c \in CallIds :
       (calls[c].pc = "access" /\ calls'[c].pc = "returned"
          /\ calls'[c].result.cached)
         => Persisted(calls'[c].result.path)]_vars

\* C36: when getOrCreateVariant returns a failure result, the manifest in
\* memory holds no entry for its key that was not there when the call began
\* (an entry of the file this call was about to store).
C36_FailureLeavesNoEntry ==
  \A c \in CallIds :
    (/\ calls[c].pc = "returned"
     /\ ~calls[c].result.success
     /\ ~calls[c].result.thrown
     /\ calls[c].filename # Null)
      => ~(/\ calls[c].key \in DOMAIN manifest
           /\ manifest[calls[c].key].filename = calls[c].filename[1])

\* The stage changes of a run that follow the order transcribing, thinking,
\* generating character, generating audio, idle: in the integrated server
\* (the position of a run) and in the legacy conversation module.
RunOrder ==
  { <<"free", "whisper">>, <<"free", "gemini">>, <<"whisper", "gemini">>,
    <<"gemini", "character">>, <<"gemini", "tts">>, <<"character", "tts">>,
    <<"whisper", "done">>, <<"gemini", "done">>, <<"character", "done">>,
    <<"tts", "done">> }

LegacyOrder ==
  { <<"idle", "transcribing">>, <<"transcribing", "thinking">>,
    <<"thinking", "generating-character">>, <<"thinking", "speaking">>,
    <<"generating-character", "speaking">>, <<"transcribing", "idle">>,
    <<"thinking", "idle">>, <<"generating-character", "idle">>,
    <<"speaking", "idle">> }

\* C35: in every run the stages follow that order; the custom-character
\* generation starts only after the text model has replied.
C35_StagesInOrder ==
  [][/\ \A r \in RunIds :
          runs'[r].pc # runs[r].pc => <<runs[r].pc, runs'[r].pc>> \in RunOrder
     /\ legacy'.stage # legacy.stage =>
          <<legacy.stage, legacy'.stage>> \in LegacyOrder]_vars

\* C37: checkCache removes the entry of a key from the manifest only when
\* the file of the entry stored under that key at that moment is missing.
C37_EvictsOnlyMissingFile ==
  [][\A k \in DOMAIN manifest :
       k \notin DOMAIN manifest' => manifest[k].filename \notin files]_vars

\* C38: with several generator instances on one manifest file and no cache
\* clear, once no write is pending the file holds an entry for every key
\* that has been generated successfully.
C38_ManifestFileKeepsEveryEntry ==
  (\A g \in Generators : legacy.calls[g].pc # "save")
    => legacy.generated \subseteq legacy.diskManifest

\* C39: the history of every session alternates, starting with a user turn:
\* every assistant turn directly follows the user turn of the same run.
C39_HistoryAlternates ==
  \A s \in Sockets :
    \A i \in 1..Len(conversationHistory[s]) :
      IF i % 2 = 1
        THEN conversationHistory[s][i].role = "user"
        ELSE /\ conversationHistory[s][i].role = "assistant"
             /\ conversationHistory[s][i].run = conversationHistory[s][i - 1].run

\* A step of session a: its interrupt, its reset, or a step of one of its
\* pipeline runs (a submission, the return of a collaborator, a step of its
\* call of the generator).
StepOf(a) ==
  \/ Interrupt(a)
  \/ Reset(a)
  \/ \E r \in RunIds :
       /\ runs'[r].sock = a
       /\ runs'[r] # runs[r] \/ calls'[r] # calls[r]

\* C40: a step of session a leaves the history, the busy flag and the active
\* custom character of every other session as they were.
C40_OtherSessionsUnchanged ==
  [][\A a, b \in Sockets :
       (a # b /\ StepOf(a))
         => /\ conversationHistory'[b] = conversationHistory[b]
            /\ isProcessing'[b] = isProcessing[b]
            /\ ActiveOf(b)' = ActiveOf(b)]_vars

C40_Witness ==
  /\ ResetComplete("a") \in emitted
  /\ conversationHistory["a"] = <<>>
  /\ \E r \in RunIds : runs[r].sock = "a" /\ runs[r].pc = "gemini"
  /\ Len(conversationHistory["b"]) = 2
  /\ isProcessing["b"]
  /\ ActiveOf("b") # Null
====
